---- MODULE Spec2Model ----
(***************************************************************************)
(* AVR ISP programmer for the Raspberry Pi Pico: the STK500v1 frame parser *)
(* and command dispatcher (pico/stk500v1.c), the bit-banged ISP driver     *)
(* (pico/avrprog_bitbang.c), the device table (avr_devices.c) and the main *)
(* loop, together with the AVR target they drive.                          *)
(*                                                                         *)
(* One action is one write of the host, handled by the main loop in calls  *)
(* of stk500v1_feed.  What it does on the wires (bytes written to the host,*)
(* flushes, SPI transactions, RESET changes, frames dispatched, bytes      *)
(* dropped) is recorded, in order, in the variable trace.                  *)
(***************************************************************************)
EXTENDS Integers, Sequences, FiniteSets, TLC

VARIABLES
    rx_buf,            \* stk500v1.c: rx_buf[0 .. rx_len-1]; rx_len is Len(rx_buf)
    current_address,   \* stk500v1.c: uint32_t current_address (word address)
    programming,       \* stk500v1.c: bool programming
    page_size_bytes,   \* stk500v1.c: uint16_t page_size_bytes
    words_per_page,    \* stk500v1.c: uint16_t words_per_page
    bb_erase_count,    \* avrprog_bitbang.c: int bb_erase_count
    reset_pin,         \* level of BB_RESET_PIN: 1 released, 0 asserted
    halted,            \* the CPU sits in the endless loop of avr_erase_memory
    flash,             \* target: programmed flash words, word address -> word
    pagebuf,           \* target: temporary page buffer, index -> [lo, hi]
    sig,               \* target: its three signature bytes
    tgt_wpp,           \* target: words per flash page of the chip itself
    tgt_desync,        \* target: programming-enable transactions it will not echo
    trace,             \* what the last action did on the wires, in order
    pc,                \* main(): "boot" before the initialisation, then "loop"
    script,            \* host: the frames of a scripted session; the garbage sent
    replies,           \* host: the replies to the script; the state before garbage
    sent,              \* host: the bytes the host sent in the last step
    phase,             \* host: where the host is in its session
    nfeeds,            \* host: number of sends (SpecStream: of bytes) so far
    variant,           \* which dispatcher source the firmware was built from
    program_code,      \* main.c: uint8_t program_code[2000], index -> byte written
    input,             \* main.c: char input[10]
    code_c,            \* main.c, main(): int code_c
    input_c,           \* main.c, main(): int input_c
    fpc,               \* main.c, main(): where the serial flasher is
    access             \* main.c: the array accesses of the last step, in order

vars == << rx_buf, current_address, programming, page_size_bytes, words_per_page,
           bb_erase_count, reset_pin, halted, flash, pagebuf, sig, tgt_wpp,
           tgt_desync, trace, pc, script, replies, sent, phase, nfeeds,
           variant, program_code, input, code_c, input_c, fpc, access >>

(***************************************************************************)
(* Protocol constants (pico/stk500v1.h), in decimal.                       *)
(***************************************************************************)
Cmnd_STK_GET_SYNC == 48        \* 0x30
Cmnd_STK_GET_SIGN_ON == 49     \* 0x31
Cmnd_STK_SET_PARAMETER == 64   \* 0x40
Cmnd_STK_GET_PARAMETER == 65   \* 0x41
Cmnd_STK_SET_DEVICE == 66      \* 0x42
Cmnd_STK_SET_DEVICE_EXT == 69  \* 0x45
Cmnd_STK_ENTER_PROGMODE == 80  \* 0x50
Cmnd_STK_LEAVE_PROGMODE == 81  \* 0x51
Cmnd_STK_CHIP_ERASE == 82      \* 0x52
Cmnd_STK_CHECK_AUTOINC == 83   \* 0x53
Cmnd_STK_LOAD_ADDRESS == 85    \* 0x55
Cmnd_STK_UNIVERSAL == 86       \* 0x56
Cmnd_STK_PROG_PAGE == 100      \* 0x64
Cmnd_STK_READ_PAGE == 116      \* 0x74
Cmnd_STK_READ_SIGN == 117      \* 0x75
Sync_CRC_EOP == 32             \* 0x20
Resp_STK_INSYNC == 20          \* 0x14
Resp_STK_OK == 16              \* 0x10
Resp_STK_NOSYNC == 21          \* 0x15
Resp_STK_FAILED == 17          \* 0x11
STK_RX_BUF_SIZE == 1024
MemtypeF == 70                 \* 'F'
Memtypef == 102                \* 'f'
MaxPageOp == 256               \* largest size of a PROG_PAGE or READ_PAGE
DefaultPageSize == 128
EraseLimit == 200
EnterAttempts == 8
ErasedWord == 65535            \* 0xFFFF, a flash word never programmed

(***************************************************************************)
(* C integer arithmetic.                                                   *)
(***************************************************************************)
U8(x) == x % 256
U16(x) == x % 65536
\* uint32_t: current_address starts from at most 0xFFFF and grows by at most 128
\* per frame, so no run of the model comes near 2^32 and the value is exact.
U32(x) == x
Lo8(w) == w % 256
Hi8(w) == (w \div 256) % 256

Last(s) == s[Len(s)]
Min(a, b) == IF a < b THEN a ELSE b

(***************************************************************************)
(* The trace.  An event is a record: ev names it, dat holds its bytes,     *)
(* rsp the bytes received (SPI), and prog, ec and addr are the values of   *)
(* programming, bb_erase_count and current_address when it happened.       *)
(*   "spi"      a 4-byte transfer of avr_bitbang_transfer                  *)
(*   "spi0"     a 4-byte transfer of spi_write_read_blocking(spi0, ..)     *)
(*   "put"      one byte written to the host (tud_cdc_write_char)          *)
(*   "flush"    tud_cdc_write_flush                                        *)
(*   "reset"    gpio_put(BB_RESET_PIN, dat[1])                             *)
(*   "dispatch" handle_frame is entered; dat is the whole frame            *)
(*   "drop"     drop_rx; dat holds the bytes removed                       *)
(*   "halt"     the endless loop of avr_erase_memory is entered            *)
(***************************************************************************)
Event(m, e, d, r) ==
    [ev |-> e, dat |-> d, rsp |-> r,
     prog |-> m.programming, ec |-> m.bb_erase_count, addr |-> m.current_address]

Log(m, e, d, r) == [m EXCEPT !.trace = Append(@, Event(m, e, d, r))]

(***************************************************************************)
(* The AVR target on the ISP wires.  Its serial-programming instructions   *)
(* are the ones avrprog_bitbang.c builds; a byte it shifts out echoes the  *)
(* byte shifted in before it, except the data byte of a read.  The page    *)
(* buffer is addressed by the word offset within the page, and write-page  *)
(* stores the loaded words into the page that contains the given address   *)
(* (avrprog.h: "Word offset within page", "Any word address within the     *)
(* target page").                                                          *)
(***************************************************************************)
IsProgEnable(tx) == tx[1] = 172 /\ tx[2] = 83     \* AC 53 .. ..
IsChipErase(tx) == tx[1] = 172 /\ tx[2] = 128     \* AC 80 .. ..
IsReadSig(tx) == tx[1] = 48                       \* 30 00 ii ..
IsLoadLow(tx) == tx[1] = 64                       \* 40 hh ll dd
IsLoadHigh(tx) == tx[1] = 72                      \* 48 hh ll dd
IsWritePage(tx) == tx[1] = 76                     \* 4C hh ll ..
IsReadLow(tx) == tx[1] = 32                       \* 20 hh ll ..
IsReadHigh(tx) == tx[1] = 40                      \* 28 hh ll ..
TxAddr(tx) == tx[2] * 256 + tx[3]

FlashWord(fl, a) == IF a \in DOMAIN fl THEN fl[a] ELSE ErasedWord

BufWord(e) == e.hi * 256 + e.lo

TargetReply(m, tx) ==
    LET d == CASE IsProgEnable(tx) -> tx[3]
               [] IsReadSig(tx) -> IF tx[3] % 4 < 3 THEN m.sig[(tx[3] % 4) + 1] ELSE 255
               [] IsReadLow(tx) -> Lo8(FlashWord(m.flash, TxAddr(tx)))
               [] IsReadHigh(tx) -> Hi8(FlashWord(m.flash, TxAddr(tx)))
               [] OTHER -> tx[3]
        e == IF IsProgEnable(tx) /\ m.tgt_desync > 0 THEN 255 ELSE tx[2]
    IN  << 255, tx[1], e, d >>

LoadBuf(pb, i, isHigh, b) ==
    LET old == IF i \in DOMAIN pb THEN pb[i] ELSE [lo |-> 255, hi |-> 255]
        new == IF isHigh THEN [old EXCEPT !.hi = b] ELSE [old EXCEPT !.lo = b]
    IN  (i :> new) @@ pb

WritePage(fl, pb, wpp, a) ==
    LET base == a - (a % wpp)
        tgt == {base + i : i \in DOMAIN pb}
        val(x) == IF x \in tgt THEN BufWord(pb[x - base]) ELSE fl[x]
    IN  [x \in {y \in DOMAIN fl \cup tgt : val(y) # ErasedWord} |-> val(x)]

TargetEffect(m, tx) ==
    CASE IsProgEnable(tx) ->
            [m EXCEPT !.tgt_desync = IF @ > 0 THEN @ - 1 ELSE 0]
      [] IsChipErase(tx) ->
            [m EXCEPT !.flash = << >>, !.pagebuf = << >>]
      [] IsLoadLow(tx) \/ IsLoadHigh(tx) ->
            [m EXCEPT !.pagebuf =
                LoadBuf(@, TxAddr(tx) % m.tgt_wpp, IsLoadHigh(tx), tx[4])]
      [] IsWritePage(tx) ->
            [m EXCEPT !.flash = WritePage(@, m.pagebuf, m.tgt_wpp, TxAddr(tx)),
                      !.pagebuf = << >>]
      [] OTHER -> m

(***************************************************************************)
(* pico/avrprog_bitbang.c                                                  *)
(***************************************************************************)
avr_bitbang_transfer(m, tx) ==
    TargetEffect(Log(m, "spi", tx, TargetReply(m, tx)), tx)

\* The four bytes received by the last transfer.
bb_output_buffer(m) == Last(m.trace).rsp

avr_bitbang_reset_assert(m) ==
    Log([m EXCEPT !.reset_pin = 0], "reset", <<0>>, << >>)

avr_bitbang_reset_release(m) ==
    Log([m EXCEPT !.reset_pin = 1], "reset", <<1>>, << >>)

avr_bitbang_init(m) == avr_bitbang_reset_release(m)

avr_spi_init(m) == avr_bitbang_init(m)

\* The signature byte taken from the echo position of the response.
StoreSignature_Echo(m) == [m EXCEPT !.signature = Append(@, bb_output_buffer(m)[3])]

\* signature[i] = bb_output_buffer[3]
StoreSignature(m) == [m EXCEPT !.signature = Append(@, bb_output_buffer(m)[4])]

\* One pass of the loop of avr_read_signature.
ReadSignatureByte(m, i) == StoreSignature(avr_bitbang_transfer(m, <<48, 0, i, 0>>))

\* Leaves the three signature bytes in the field signature.
avr_read_signature(m) ==
    ReadSignatureByte(
        ReadSignatureByte(
            ReadSignatureByte([m EXCEPT !.signature = << >>], 0), 1), 2)

\* The loop of avr_enter_programming_mode: EnterAttempt is its head, with the
\* transfer; EnterEcho is the test of the echo after the transfer.
RECURSIVE EnterAttempt(_, _)
EnterEcho(m, attempt) ==
    IF bb_output_buffer(m)[3] = 83
    THEN [m EXCEPT !.ret = TRUE]
    ELSE EnterAttempt(m, attempt + 1)

EnterAttempt(m, attempt) ==
    IF attempt < EnterAttempts
    THEN EnterEcho(avr_bitbang_transfer(m, <<172, 83, 0, 0>>), attempt)
    ELSE [avr_bitbang_reset_release(m) EXCEPT !.ret = FALSE]

\* avr_enter_programming_mode without the avr_bitbang_reset_assert call.
avr_enter_programming_mode_NoAssert(m) ==
    EnterAttempt(avr_bitbang_reset_release(m), 0)

avr_enter_programming_mode(m) ==
    EnterAttempt(avr_bitbang_reset_assert(avr_bitbang_reset_release(m)), 0)

avr_leave_programming_mode(m) == avr_bitbang_reset_release(m)

EraseAllowed(n) == ~(n > EraseLimit)

\* avr_erase_memory without bb_erase_count++.
avr_erase_memory_NoCount(m) ==
    IF ~EraseAllowed(m.bb_erase_count)
    THEN Log([m EXCEPT !.halted = TRUE], "halt", << >>, << >>)
    ELSE avr_bitbang_transfer(m, <<172, 128, 0, 0>>)

avr_erase_memory(m) ==
    IF ~EraseAllowed(m.bb_erase_count)
    THEN Log([m EXCEPT !.halted = TRUE], "halt", << >>, << >>)
    ELSE [avr_bitbang_transfer(m, <<172, 128, 0, 0>>)
            EXCEPT !.bb_erase_count = @ + 1]

\* avr_write_temporary_buffer loading the high byte before the low byte.
avr_write_temporary_buffer_HighFirst(m, word_address, low_byte, high_byte) ==
    LET addr_msb == U8(word_address \div 256)
        addr_lsb == word_address % 256
        m1 == avr_bitbang_transfer(m, <<72, addr_msb, addr_lsb, high_byte>>)
    IN  avr_bitbang_transfer(m1, <<64, addr_msb, addr_lsb, low_byte>>)

avr_write_temporary_buffer(m, word_address, low_byte, high_byte) ==
    LET addr_msb == U8(word_address \div 256)
        addr_lsb == word_address % 256
        m1 == avr_bitbang_transfer(m, <<64, addr_msb, addr_lsb, low_byte>>)
    IN  avr_bitbang_transfer(m1, <<72, addr_msb, addr_lsb, high_byte>>)

\* avr_write_temporary_buffer_16 loading only the low byte of the word.
avr_write_temporary_buffer_16_LowOnly(m, word_address, word) ==
    avr_bitbang_transfer(m, <<64, U8(word_address \div 256), word_address % 256,
                              word % 256>>)

avr_write_temporary_buffer_16(m, word_address, word) ==
    avr_write_temporary_buffer(m, word_address, word % 256, U8(word \div 256))

avr_flash_program_memory(m, word_address) ==
    avr_bitbang_transfer(m, <<76, U8(word_address \div 256), word_address % 256, 0>>)

\* return bb_output_buffer[3]
ReturnData(m) == [m EXCEPT !.ret = bb_output_buffer(m)[4]]

avr_read_program_memory_low_byte(m, word_address) ==
    ReturnData(avr_bitbang_transfer(m,
                 <<32, U8(word_address \div 256), word_address % 256, 0>>))

avr_read_program_memory_high_byte(m, word_address) ==
    ReturnData(avr_bitbang_transfer(m,
                 <<40, U8(word_address \div 256), word_address % 256, 0>>))

\* data = high; data <<= 8
ShiftHigh(m) == [m EXCEPT !.data = U16(m.ret * 256)]

\* data |= low; return data
OrLow(m) == [m EXCEPT !.ret = m.data + m.ret]

avr_read_program_memory(m, word_address) ==
    OrLow(avr_read_program_memory_low_byte(
              ShiftHigh(avr_read_program_memory_high_byte(m, word_address)),
              word_address))

(***************************************************************************)
(* avr_devices.c                                                           *)
(***************************************************************************)
devices ==
    << [signature |-> <<30, 149, 15>>, name |-> "ATmega328P",
        flash_size_bytes |-> 32768, page_size_bytes |-> 128],
       [signature |-> <<30, 147, 11>>, name |-> "ATtiny85",
        flash_size_bytes |-> 8192, page_size_bytes |-> 64] >>

NoDevice == [signature |-> << >>, name |-> "", flash_size_bytes |-> 0,
             page_size_bytes |-> 0]

\* NoDevice stands for NULL.
avr_lookup_device_by_signature(s) ==
    IF \E i \in 1..Len(devices) : devices[i].signature = s
    THEN devices[CHOOSE i \in 1..Len(devices) :
                    /\ devices[i].signature = s
                    /\ \A k \in 1..(i - 1) : devices[k].signature # s]
    ELSE NoDevice

(***************************************************************************)
(* pico/stk500v1.c: responses                                              *)
(***************************************************************************)
put(m, b) == Log(m, "put", <<b>>, << >>)

flush(m) == Log(m, "flush", << >>, << >>)

RECURSIVE tud_cdc_write(_, _)
tud_cdc_write(m, bytes) ==
    IF bytes = << >> THEN m ELSE tud_cdc_write(put(m, Head(bytes)), Tail(bytes))

\* resp_ok_insync that leaves the reply in the CDC write buffer.
resp_ok_insync_NoFlush(m) == put(put(m, Resp_STK_INSYNC), Resp_STK_OK)

resp_ok_insync(m) == flush(put(put(m, Resp_STK_INSYNC), Resp_STK_OK))

\* resp_failed without the leading INSYNC.
resp_failed_NoInsync(m) == flush(put(m, Resp_STK_FAILED))

resp_failed(m) == flush(put(put(m, Resp_STK_INSYNC), Resp_STK_FAILED))

resp_nosync(m) == flush(put(m, Resp_STK_NOSYNC))

drop_rx(m, n) ==
    IF n >= Len(m.rx_buf)
    THEN Log([m EXCEPT !.rx_buf = << >>], "drop", m.rx_buf, << >>)
    ELSE Log([m EXCEPT !.rx_buf = SubSeq(@, n + 1, Len(@))],
             "drop", SubSeq(m.rx_buf, 1, n), << >>)

\* get_parameter_value with the software minor version written as decimal 12.
get_parameter_value_Minor12(param) ==
    CASE param = 128 -> 2
      [] param = 129 -> 1
      [] param = 130 -> 12
      [] OTHER -> 0

get_parameter_value(param) ==
    CASE param = 128 -> 2
      [] param = 129 -> 1
      [] param = 130 -> 18
      [] OTHER -> 0

\* The profile cached without recomputing words_per_page.
CacheProfile_PageOnly(m) ==
    LET dev == avr_lookup_device_by_signature(m.signature)
    IN  IF dev # NoDevice /\ dev.page_size_bytes # 0
        THEN [m EXCEPT !.page_size_bytes = dev.page_size_bytes]
        ELSE m

\* cache_device_params after avr_read_signature(sig).
CacheProfile(m) ==
    LET dev == avr_lookup_device_by_signature(m.signature)
    IN  IF dev # NoDevice /\ dev.page_size_bytes # 0
        THEN [m EXCEPT !.page_size_bytes = dev.page_size_bytes,
                       !.words_per_page = dev.page_size_bytes \div 2]
        ELSE m

cache_device_params(m) == CacheProfile(avr_read_signature(m))

\* hardware/spi.h, as the UNIVERSAL handler calls it on spi0.
spi_write_read_blocking(m, tx) ==
    TargetEffect(Log(m, "spi0", tx, TargetReply(m, tx)), tx)

(***************************************************************************)
(* pico/stk500v1.c: handle_frame, one operator per case of the switch      *)
(***************************************************************************)
\* GET_SIGN_ON closing its reply with the end-of-packet byte.
HandleGetSignOn_WithEop(m) ==
    flush(put(put(tud_cdc_write(put(m, Resp_STK_INSYNC), <<65, 86, 82, 32, 73, 83, 80>>),
                  Resp_STK_OK), Sync_CRC_EOP))

HandleGetSignOn(m) ==
    flush(put(tud_cdc_write(put(m, Resp_STK_INSYNC), <<65, 86, 82, 32, 73, 83, 80>>),
              Resp_STK_OK))

HandleGetParameter(m, payload) ==
    IF Len(payload) # 1
    THEN resp_failed(m)
    ELSE flush(put(put(put(m, Resp_STK_INSYNC), get_parameter_value(payload[1])),
                   Resp_STK_OK))

\* SET_PARAMETER refusing the parameters it does not know.
HandleSetParameter_KnownOnly(m, payload) ==
    IF Len(payload) # 2 \/ get_parameter_value(payload[1]) = 0
    THEN resp_failed(m)
    ELSE resp_ok_insync(m)

HandleSetParameter(m, payload) ==
    IF Len(payload) # 2 THEN resp_failed(m) ELSE resp_ok_insync(m)

\* ENTER_PROGMODE starting over at address 0 when the target does not answer.
EnterBranches_FailRewinds(m) ==
    IF m.ret
    THEN resp_ok_insync(cache_device_params([m EXCEPT !.programming = TRUE]))
    ELSE resp_failed([m EXCEPT !.current_address = 0])

\* The two branches of if (avr_enter_programming_mode()).
EnterBranches(m) ==
    IF m.ret
    THEN resp_ok_insync(cache_device_params([m EXCEPT !.programming = TRUE]))
    ELSE resp_failed(m)

HandleEnterProgmode(m) == EnterBranches(avr_enter_programming_mode(m))

HandleLeaveProgmode(m) ==
    resp_ok_insync(avr_leave_programming_mode([m EXCEPT !.programming = FALSE]))

\* unnamed/part_000, the other dispatcher source of the repository: it is
\* pico/stk500v1.c line for line, except for this case.
HandleLeaveProgmode_part000(m) ==
    resp_ok_insync([m EXCEPT !.programming = FALSE])

BuildPico == "pico/stk500v1.c"
BuildPart000 == "unnamed/part_000"

LeaveCase(m) ==
    IF m.variant = BuildPart000
    THEN HandleLeaveProgmode_part000(m)
    ELSE HandleLeaveProgmode(m)

\* avr_erase_memory does not return once it halts.
EraseReturned(m) == IF m.halted THEN m ELSE resp_ok_insync(m)

HandleChipErase(m) == EraseReturned(avr_erase_memory(m))

HandleCheckAutoinc(m) ==
    flush(put(put(put(m, Resp_STK_INSYNC), 1), Resp_STK_OK))

HandleLoadAddress(m, payload) ==
    IF Len(payload) # 2
    THEN resp_failed(m)
    ELSE resp_ok_insync([m EXCEPT !.current_address = payload[2] * 256 + payload[1]])

ReplySignature(m) ==
    flush(put(put(put(put(put(m, Resp_STK_INSYNC),
                  m.signature[1]), m.signature[2]), m.signature[3]), Resp_STK_OK))

HandleReadSign(m) == ReplySignature(avr_read_signature(m))

\* put(rx[3]) between INSYNC and OK
ReplyUniversal(m) ==
    flush(put(put(put(m, Resp_STK_INSYNC), Last(m.trace).rsp[4]), Resp_STK_OK))

HandleUniversal(m, payload) ==
    IF Len(payload) # 4
    THEN resp_failed(m)
    ELSE ReplyUniversal(spi_write_read_blocking(m, payload))

\* The word with its bytes paired the other way round.
PageWord_Swapped(data, j) == data[j * 2 + 1] * 256 + data[j * 2 + 2]

\* The word the PROG_PAGE loop builds for index j (from 0).
PageWord(data, j) == data[j * 2 + 2] * 256 + data[j * 2 + 1]

\* The index PROG_PAGE passes to avr_write_temporary_buffer_16 for word j.
BufferIndex(m, j) == U16(j)

\* for (j = lo; j <= hi; j++) avr_write_temporary_buffer_16(j, word), in order.
RECURSIVE LoadWords(_, _, _, _)
LoadWords(m, data, lo, hi) ==
    IF lo > hi \/ m.halted THEN m
    ELSE IF lo = hi
         THEN avr_write_temporary_buffer_16(m, BufferIndex(m, lo), PageWord(data, lo))
         ELSE LET mid == (lo + hi) \div 2
              IN  LoadWords(LoadWords(m, data, lo, mid), data, mid + 1, hi)

\* The address PROG_PAGE passes to avr_flash_program_memory.
CommitAddress(m) == U16(m.current_address)

\* The PROG_PAGE validation without the comparison with page_size_bytes.
ProgPageAccepts_AnyPage(m, payload) ==
    LET size == payload[1] * 256 + payload[2]
        memtype == payload[3]
        data_len == Len(payload) - 3
    IN  /\ memtype = MemtypeF \/ memtype = Memtypef
        /\ size = data_len
        /\ ~(size > MaxPageOp)

ProgPageAccepts(m, payload) ==
    LET size == payload[1] * 256 + payload[2]
        memtype == payload[3]
        data_len == Len(payload) - 3
    IN  /\ memtype = MemtypeF \/ memtype = Memtypef
        /\ size = data_len
        /\ ~(size > m.page_size_bytes \/ size > MaxPageOp)

\* The commit without the advance of current_address.
CommitPage_NoAdvance(m, words) == avr_flash_program_memory(m, CommitAddress(m))

\* avr_flash_program_memory((uint16_t)current_address); current_address += words
CommitPage(m, words) ==
    [avr_flash_program_memory(m, CommitAddress(m))
        EXCEPT !.current_address = U32(@ + words)]

HandleProgPage(m, payload) ==
    IF Len(payload) < 3
    THEN resp_failed(m)
    ELSE IF ~ProgPageAccepts(m, payload)
    THEN resp_failed(m)
    ELSE LET size == payload[1] * 256 + payload[2]
             data == SubSeq(payload, 4, Len(payload))
             words == size \div 2
         IN  resp_ok_insync(CommitPage(LoadWords(m, data, 0, words - 1), words))

\* The read address held at 0xFFFF instead of wrapping.
ReadAddress_Saturates(m, off) == Min(m.current_address + (off \div 2), 65535)

\* The word address READ_PAGE reads for byte offset off.
ReadAddress(m, off) == U16(m.current_address + (off \div 2))

\* The byte selection with the parity test the other way round.
WriteReadByte_HighFirst(m, off) ==
    put(m, IF off % 2 = 0 THEN U8(m.ret \div 256) ELSE m.ret % 256)

\* b = (off & 1) ? (uint8_t)(w >> 8) : (uint8_t)(w & 0xFF); tud_cdc_write_char(b)
WriteReadByte(m, off) ==
    put(m, IF off % 2 = 1 THEN U8(m.ret \div 256) ELSE m.ret % 256)

ReadOne(m, off) ==
    WriteReadByte(avr_read_program_memory(m, ReadAddress(m, off)), off)

\* for (off = lo; off <= hi; off++) read the word and write the byte, in order.
RECURSIVE ReadBytes(_, _, _)
ReadBytes(m, lo, hi) ==
    IF lo > hi \/ m.halted THEN m
    ELSE IF lo = hi THEN ReadOne(m, lo)
         ELSE LET mid == (lo + hi) \div 2
              IN  ReadBytes(ReadBytes(m, lo, mid), mid + 1, hi)

ReadPageAccepts(payload) ==
    LET size == payload[1] * 256 + payload[2]
        memtype == payload[3]
    IN  /\ memtype = MemtypeF \/ memtype = Memtypef
        /\ ~(size <= 0 \/ size > MaxPageOp)

\* READ_PAGE advancing by size / 2, rounded down.
HandleReadPage_RoundsDown(m, payload) ==
    IF Len(payload) # 3
    THEN resp_failed(m)
    ELSE IF ~ReadPageAccepts(payload)
    THEN resp_failed(m)
    ELSE LET size == payload[1] * 256 + payload[2]
         IN  [flush(put(ReadBytes(put(m, Resp_STK_INSYNC), 0, size - 1), Resp_STK_OK))
                 EXCEPT !.current_address = U32(@ + (size \div 2))]

HandleReadPage(m, payload) ==
    IF Len(payload) # 3
    THEN resp_failed(m)
    ELSE IF ~ReadPageAccepts(payload)
    THEN resp_failed(m)
    ELSE LET size == payload[1] * 256 + payload[2]
         IN  [flush(put(ReadBytes(put(m, Resp_STK_INSYNC), 0, size - 1), Resp_STK_OK))
                 EXCEPT !.current_address = U32(@ + ((size + 1) \div 2))]

handle_frame(m, cmd, payload) ==
    CASE cmd = Cmnd_STK_GET_SYNC -> resp_ok_insync(m)
      [] cmd = Cmnd_STK_GET_SIGN_ON -> HandleGetSignOn(m)
      [] cmd = Cmnd_STK_GET_PARAMETER -> HandleGetParameter(m, payload)
      [] cmd = Cmnd_STK_SET_PARAMETER -> HandleSetParameter(m, payload)
      [] cmd = Cmnd_STK_SET_DEVICE -> resp_ok_insync(m)
      [] cmd = Cmnd_STK_SET_DEVICE_EXT -> resp_ok_insync(m)
      [] cmd = Cmnd_STK_ENTER_PROGMODE -> HandleEnterProgmode(m)
      [] cmd = Cmnd_STK_LEAVE_PROGMODE -> LeaveCase(m)
      [] cmd = Cmnd_STK_CHIP_ERASE -> HandleChipErase(m)
      [] cmd = Cmnd_STK_CHECK_AUTOINC -> HandleCheckAutoinc(m)
      [] cmd = Cmnd_STK_LOAD_ADDRESS -> HandleLoadAddress(m, payload)
      [] cmd = Cmnd_STK_READ_SIGN -> HandleReadSign(m)
      [] cmd = Cmnd_STK_UNIVERSAL -> HandleUniversal(m, payload)
      [] cmd = Cmnd_STK_PROG_PAGE -> HandleProgPage(m, payload)
      [] cmd = Cmnd_STK_READ_PAGE -> HandleReadPage(m, payload)
      [] OTHER -> resp_failed(m)

stk500v1_init(m) ==
    [m EXCEPT !.current_address = 0,
              !.programming = FALSE,
              !.page_size_bytes = DefaultPageSize,
              !.words_per_page = DefaultPageSize \div 2,
              !.rx_buf = << >>]

(***************************************************************************)
(* pico/stk500v1.c: stk500v1_feed                                          *)
(***************************************************************************)
NoPayloadCmds ==
    { Cmnd_STK_GET_SYNC, Cmnd_STK_GET_SIGN_ON, Cmnd_STK_ENTER_PROGMODE,
      Cmnd_STK_LEAVE_PROGMODE, Cmnd_STK_CHIP_ERASE, Cmnd_STK_CHECK_AUTOINC,
      Cmnd_STK_READ_SIGN }

FixedCmds ==
    NoPayloadCmds \cup
    { Cmnd_STK_GET_PARAMETER, Cmnd_STK_SET_PARAMETER, Cmnd_STK_SET_DEVICE,
      Cmnd_STK_SET_DEVICE_EXT, Cmnd_STK_LOAD_ADDRESS, Cmnd_STK_UNIVERSAL,
      Cmnd_STK_READ_PAGE }

KnownCmds == FixedCmds \cup { Cmnd_STK_PROG_PAGE }

\* The switch on cmd, for the commands of fixed length.
FixedNeeded(cmd) ==
    CASE cmd \in NoPayloadCmds -> 1 + 1
      [] cmd = Cmnd_STK_GET_PARAMETER -> 1 + 1 + 1
      [] cmd = Cmnd_STK_SET_PARAMETER -> 1 + 2 + 1
      [] cmd = Cmnd_STK_SET_DEVICE -> 1 + 20 + 1
      [] cmd = Cmnd_STK_SET_DEVICE_EXT -> 1 + 5 + 1
      [] cmd = Cmnd_STK_LOAD_ADDRESS -> 1 + 2 + 1
      [] cmd = Cmnd_STK_UNIVERSAL -> 1 + 4 + 1
      [] cmd = Cmnd_STK_READ_PAGE -> 1 + 3 + 1

\* A parser that does not look at the last byte.
EopAt_Unchecked(rx, needed) == TRUE

\* rx_buf[needed - 1] == Sync_CRC_EOP
EopAt(rx, needed) == rx[needed] = Sync_CRC_EOP

\* memchr(rx_buf, Sync_CRC_EOP, rx_len): the index from 0, or -1 for NULL.
MemchrEop(rx) ==
    IF \E i \in 1..Len(rx) : rx[i] = Sync_CRC_EOP
    THEN (CHOOSE i \in 1..Len(rx) :
             /\ rx[i] = Sync_CRC_EOP
             /\ \A k \in 1..(i - 1) : rx[k] # Sync_CRC_EOP) - 1
    ELSE -1

\* The resync that always removes one byte.
Resync_DropOne(m) == resp_nosync(drop_rx(m, 1))

Resync(m) ==
    LET idx == MemchrEop(m.rx_buf)
    IN  resp_nosync(IF idx >= 0 THEN drop_rx(m, idx + 1) ELSE drop_rx(m, 1))

\* drop_rx(needed) after handle_frame, which returns unless it halted.
FrameHandled(m, needed) == IF m.halted THEN m ELSE drop_rx(m, needed)

Dispatch(m, needed) ==
    LET frame == SubSeq(m.rx_buf, 1, needed)
    IN  FrameHandled(handle_frame(Log(m, "dispatch", frame, << >>),
                                  frame[1], SubSeq(frame, 2, needed - 1)),
                     needed)

\* The PROG_PAGE header refused from size 256 on.
ProgPageSizeOk_Below256(size) == ~(size < 0 \/ size >= MaxPageOp)

\* The PROG_PAGE header accepted with any size.
ProgPageSizeOk_Any(size) == TRUE

\* The PROG_PAGE case of the switch: the size read from the header.
ProgPageSizeOk(size) == ~(size < 0 \/ size > MaxPageOp)

\* What the head of the loop body decides from the buffer: the value of needed
\* after the switch; Wait where the body returns for the PROG_PAGE header; and
\* 0 where it does drop_rx(1); continue (a leading EOP, an unknown command, a
\* PROG_PAGE size out of range), which is also what needed == 0 leads to.
Wait == -1

\* A parser that waits at an unknown command byte instead of dropping it.
Needed_UnknownWaits(rx) ==
    LET cmd == rx[1]
    IN  IF cmd = Sync_CRC_EOP THEN 0
        ELSE IF cmd \in FixedCmds THEN FixedNeeded(cmd)
        ELSE IF cmd = Cmnd_STK_PROG_PAGE
        THEN IF Len(rx) < 4 THEN Wait
             ELSE IF ~ProgPageSizeOk(rx[2] * 256 + rx[3]) THEN 0
             ELSE 1 + 3 + (rx[2] * 256 + rx[3]) + 1
        ELSE Wait

\* A parser that takes the first 0x20 buffered as the end of the frame.
Needed_ToFirstEop(rx) ==
    IF rx[1] = Sync_CRC_EOP \/ rx[1] \notin KnownCmds THEN 0
    ELSE IF MemchrEop(rx) >= 0 THEN MemchrEop(rx) + 1
    ELSE Wait

\* A parser that waits at a leading 0x20 instead of skipping it.
Needed_EopWaits(rx) ==
    LET cmd == rx[1]
    IN  IF cmd = Sync_CRC_EOP THEN Wait
        ELSE IF cmd \in FixedCmds THEN FixedNeeded(cmd)
        ELSE IF cmd = Cmnd_STK_PROG_PAGE
        THEN IF Len(rx) < 4 THEN Wait
             ELSE IF ~ProgPageSizeOk(rx[2] * 256 + rx[3]) THEN 0
             ELSE 1 + 3 + (rx[2] * 256 + rx[3]) + 1
        ELSE 0

Needed(rx) ==
    LET cmd == rx[1]
    IN  IF cmd = Sync_CRC_EOP THEN 0
        ELSE IF cmd \in FixedCmds THEN FixedNeeded(cmd)
        ELSE IF cmd = Cmnd_STK_PROG_PAGE
        THEN IF Len(rx) < 4 THEN Wait
             ELSE IF ~ProgPageSizeOk(rx[2] * 256 + rx[3]) THEN 0
             ELSE 1 + 3 + (rx[2] * 256 + rx[3]) + 1
        ELSE 0

\* The loop body dropping the head of a frame that is not yet complete
\* instead of returning to wait for the rest.
Complete_ShortDrops(m, needed) ==
    IF needed = Wait THEN [m EXCEPT !.waiting = TRUE]
    ELSE IF needed = 0 THEN drop_rx(m, 1)
    ELSE IF Len(m.rx_buf) < needed THEN drop_rx(m, 1)
    ELSE IF ~EopAt(m.rx_buf, needed) THEN Resync(m)
    ELSE Dispatch(m, needed)

\* The loop body answering NOSYNC when it drops a byte for needed == 0.
Complete_DropAnswers(m, needed) ==
    IF needed = Wait THEN [m EXCEPT !.waiting = TRUE]
    ELSE IF needed = 0 THEN resp_nosync(drop_rx(m, 1))
    ELSE IF Len(m.rx_buf) < needed THEN [m EXCEPT !.waiting = TRUE]
    ELSE IF ~EopAt(m.rx_buf, needed) THEN Resync(m)
    ELSE Dispatch(m, needed)

\* From "if (needed == 0)" to the end of the loop body.
Complete(m, needed) ==
    IF needed = Wait THEN [m EXCEPT !.waiting = TRUE]
    ELSE IF needed = 0 THEN drop_rx(m, 1)
    ELSE IF Len(m.rx_buf) < needed THEN [m EXCEPT !.waiting = TRUE]
    ELSE IF ~EopAt(m.rx_buf, needed) THEN Resync(m)
    ELSE Dispatch(m, needed)

\* One pass through the body of while (rx_len > 0).
ParseStep(m) == Complete(m, Needed(m.rx_buf))

\* The loop ends when the buffer is empty, when a pass returns to wait for
\* more bytes, or when the programmer halts.
LoopExit(m) == Len(m.rx_buf) = 0 \/ m.waiting \/ m.halted

\* while (rx_len > 0) { ... }: ParseLoop(m, k) runs up to 2^k passes.  A pass
\* that does not return removes at least one byte, so 2^11 passes suffice.
RECURSIVE ParseLoop(_, _)
ParseLoop(m, k) ==
    IF LoopExit(m) THEN m
    ELSE IF k = 0 THEN ParseStep(m)
    ELSE ParseLoop(ParseLoop(m, k - 1), k - 1)

\* The append into an accumulator of 260 bytes.
Appended_Cap260(rx, data) ==
    LET to_copy == IF Len(data) > 260 - Len(rx) THEN 260 - Len(rx) ELSE Len(data)
    IN  rx \o SubSeq(data, 1, to_copy)

\* The append without the truncation to the free space.
Appended_NoTruncate(rx, data) == rx \o data

\* The bytes of data that fit into the buffer.
Appended(rx, data) ==
    LET to_copy == IF Len(data) > STK_RX_BUF_SIZE - Len(rx)
                   THEN STK_RX_BUF_SIZE - Len(rx) ELSE Len(data)
    IN  rx \o SubSeq(data, 1, to_copy)

stk500v1_feed(m, data) ==
    IF Len(data) <= 0 THEN m
    ELSE ParseLoop([m EXCEPT !.rx_buf = Appended(@, data), !.waiting = FALSE], 11)

(***************************************************************************)
(* The machine as a record, and its write-back to the variables.           *)
(***************************************************************************)
Machine ==
    [ rx_buf |-> rx_buf, current_address |-> current_address,
      programming |-> programming, page_size_bytes |-> page_size_bytes,
      words_per_page |-> words_per_page, bb_erase_count |-> bb_erase_count,
      reset_pin |-> reset_pin, halted |-> halted, flash |-> flash,
      pagebuf |-> pagebuf, sig |-> sig, tgt_wpp |-> tgt_wpp,
      tgt_desync |-> tgt_desync, variant |-> variant, trace |-> << >>,
      ret |-> 0, data |-> 0, signature |-> << >>, waiting |-> FALSE ]

Commit(m) ==
    /\ rx_buf' = m.rx_buf
    /\ current_address' = m.current_address
    /\ programming' = m.programming
    /\ page_size_bytes' = m.page_size_bytes
    /\ words_per_page' = m.words_per_page
    /\ bb_erase_count' = m.bb_erase_count
    /\ reset_pin' = m.reset_pin
    /\ halted' = m.halted
    /\ flash' = m.flash
    /\ pagebuf' = m.pagebuf
    /\ tgt_desync' = m.tgt_desync
    /\ trace' = m.trace

(***************************************************************************)
(* main(): the initialisation, and the loop that reads at most 128 bytes   *)
(* from the CDC endpoint and feeds them to the parser.                     *)
(***************************************************************************)
CFG_TUD_CDC_TX_BUFSIZE == 256      \* the CDC transmit FIFO of tusb_config.h

FeedMax == 128      \* uint8_t rx[128]

\* The calls stk500v1_feed(rx, n) that consume the bytes the host has sent,
\* each with as many bytes as fit in rx.
RECURSIVE main_loop(_, _)
main_loop(m, bytes) ==
    IF bytes = << >> \/ m.halted THEN m
    ELSE main_loop(stk500v1_feed(m, SubSeq(bytes, 1, Min(Len(bytes), FeedMax))),
                   SubSeq(bytes, Min(Len(bytes), FeedMax) + 1, Len(bytes)))

main_init(m) == stk500v1_init(avr_spi_init(m))

(***************************************************************************)
(* Targets and host frames the model draws from.                           *)
(***************************************************************************)
\* ATmega328P and ATtiny85 are in the device table; ATmega328 (128-byte
\* pages) is not.
Targets ==
    { [sig |-> <<30, 149, 15>>, wpp |-> 64],
      [sig |-> <<30, 147, 11>>, wpp |-> 32],
      [sig |-> <<30, 149, 20>>, wpp |-> 64] }

Frame(cmd, payload) == <<cmd>> \o payload \o <<Sync_CRC_EOP>>

\* n bytes: c, c + k, c + 2k, ... (mod 256)
Pattern(c, k, n) == [i \in 1..n |-> (c + k * (i - 1)) % 256]

LoadAddress(a) == Frame(Cmnd_STK_LOAD_ADDRESS, <<a % 256, a \div 256>>)

ProgPage(size, memtype, data) ==
    Frame(Cmnd_STK_PROG_PAGE, <<size \div 256, size % 256, memtype>> \o data)

ReadPage(size, memtype) ==
    Frame(Cmnd_STK_READ_PAGE, <<size \div 256, size % 256, memtype>>)

Universal(b) == Frame(Cmnd_STK_UNIVERSAL, b)

TxBytes(tr) ==
    LET puts == SelectSeq(tr, LAMBDA e : e.ev = "put")
    IN  [i \in 1..Len(puts) |-> puts[i].dat[1]]

Count(tr, kind) == Len(SelectSeq(tr, LAMBDA e : e.ev = kind))

\* The power-on state: the static initialisers, RESET pulled high.
PowerOn ==
    /\ rx_buf = << >>
    /\ current_address = 0
    /\ programming = FALSE
    /\ page_size_bytes = 128
    /\ words_per_page = 64
    /\ bb_erase_count = 0
    /\ reset_pin = 1
    /\ halted = FALSE
    /\ pagebuf = << >>
    /\ trace = << >>
    /\ program_code = << >>
    /\ input = [i \in 0..9 |-> 0]
    /\ code_c = 0
    /\ input_c = 0
    /\ fpc = "start"
    /\ access = << >>

\* The host has sent nothing yet.
HostStart ==
    /\ replies = << >>
    /\ sent = << >>
    /\ nfeeds = 0

HostIdle == UNCHANGED << script, replies, sent, phase, nfeeds >>

TargetSame == UNCHANGED << sig, tgt_wpp, variant >>

\* The serial flasher of main.c is not part of the STK500 firmware.
FlasherIdle == UNCHANGED << program_code, input, code_c, input_c, fpc, access >>

\* main() up to the loop.
Boot ==
    /\ pc = "boot"
    /\ Commit(main_init(Machine))
    /\ pc' = "loop"
    /\ HostIdle /\ TargetSame /\ FlasherIdle

\* The host sends bytes; main() feeds them to the parser.
Send(bytes) ==
    /\ pc = "loop"
    /\ ~halted
    /\ Commit(main_loop(Machine, bytes))
    /\ sent' = bytes
    /\ UNCHANGED pc
    /\ TargetSame /\ FlasherIdle

(***************************************************************************)
(* SpecErase: from power-on, a host that erases again and again, enters    *)
(* and leaves programming mode, and erases through UNIVERSAL.              *)
(***************************************************************************)
ChipEraseFrame == Frame(Cmnd_STK_CHIP_ERASE, << >>)
EnterFrame == Frame(Cmnd_STK_ENTER_PROGMODE, << >>)
LeaveFrame == Frame(Cmnd_STK_LEAVE_PROGMODE, << >>)
GetSyncFrame == Frame(Cmnd_STK_GET_SYNC, << >>)
UniversalErase == Universal(<<172, 128, 0, 0>>)

EraseFrames == { ChipEraseFrame, EnterFrame, LeaveFrame, UniversalErase }

InitErase ==
    /\ PowerOn
    /\ HostStart
    /\ variant = BuildPico
    /\ script = << >>
    /\ pc = "boot"
    /\ phase = "erase"
    /\ \E t \in Targets : sig = t.sig /\ tgt_wpp = t.wpp
    /\ tgt_desync = 0
    /\ flash \in { << >>, [a \in {0, 1} |-> 12345] }

SendErase ==
    \E f \in EraseFrames :
        /\ Send(f)
        /\ UNCHANGED << script, replies, phase, nfeeds >>

NextErase == Boot \/ SendErase

SpecErase == InitErase /\ [][NextErase]_vars

\* The chip-erase transactions in a trace: those avr_erase_memory issued, and
\* those on either path (UNIVERSAL passes its four bytes through unchanged).
DriverErases(tr) ==
    Len(SelectSeq(tr, LAMBDA e : e.ev = "spi" /\ IsChipErase(e.dat)))

AllErases(tr) ==
    Len(SelectSeq(tr, LAMBDA e : e.ev \in {"spi", "spi0"} /\ IsChipErase(e.dat)))

\* C9 (as claimed): avr_erase_memory issues the chip-erase opcode only when
\* erase_count < 200 on entry, so erase_count never exceeds 200, and a request
\* arriving with erase_count >= 200 halts without SPI traffic.
C9_EraseCeiling ==
    /\ \A i \in 1..Len(trace) :
          (trace[i].ev = "spi" /\ IsChipErase(trace[i].dat)) => trace[i].ec < EraseLimit
    /\ bb_erase_count <= EraseLimit

\* C10 (as claimed): erase_count grows by exactly one for each chip-erase SPI
\* command issued, whatever issued it, and nothing else changes it.
C10_CountsEveryErase ==
    [][bb_erase_count' = bb_erase_count + AllErases(trace')]_vars

\* C10 (amended): erase_count grows by exactly one for each chip-erase command
\* avr_erase_memory issues; no other step (the initialisation, ENTER_PROGMODE,
\* LEAVE_PROGMODE, a chip-erase opcode passed through UNIVERSAL) changes it.
C10_CountsDriverErases ==
    [][bb_erase_count' = bb_erase_count + DriverErases(trace')]_vars

\* C10 witness: a CHIP_ERASE frame was handled after earlier erases, and a
\* session was entered in between.
C10_Witness ==
    /\ sent = ChipEraseFrame
    /\ DriverErases(trace) = 1
    /\ bb_erase_count = 3
    /\ programming

(***************************************************************************)
(* SpecFrames: from power-on the host sends whole frames one after the     *)
(* other: up to MaxSetup sends that move the programmer into the states a  *)
(* session visits (one of them a run of CHIP_ERASE frames that uses up the *)
(* erase budget), then one frame of any of the fifteen commands.           *)
(***************************************************************************)
MaxSetup == 2

GetSignOnFrame == Frame(Cmnd_STK_GET_SIGN_ON, << >>)
CheckAutoincFrame == Frame(Cmnd_STK_CHECK_AUTOINC, << >>)
ReadSignFrame == Frame(Cmnd_STK_READ_SIGN, << >>)

\* EraseLimit + 1 CHIP_ERASE frames back to back.
WearOut == [i \in 1..(2 * (EraseLimit + 1)) |-> ChipEraseFrame[2 - (i % 2)]]

SetupFrames == { EnterFrame, LeaveFrame, ChipEraseFrame, LoadAddress(65520) }

\* PROG_PAGE frames whose size field exceeds 256; the data bytes are zeros, or
\* repeat 30 20 (GET_SYNC), or repeat 52 20 (CHIP_ERASE).
OversizeFrames ==
    { ProgPage(257, MemtypeF, Pattern(0, 0, 257)),
      ProgPage(258, MemtypeF, [i \in 1..258 |-> IF i % 2 = 1 THEN 48 ELSE 32]),
      ProgPage(258, MemtypeF, [i \in 1..258 |-> IF i % 2 = 1 THEN 82 ELSE 32]),
      ProgPage(300, MemtypeF, Pattern(48, 0, 300)) }

SizedFrames ==
    { GetSyncFrame, GetSignOnFrame, EnterFrame, LeaveFrame, ChipEraseFrame,
      CheckAutoincFrame, ReadSignFrame,
      Frame(Cmnd_STK_GET_PARAMETER, <<128>>),
      Frame(Cmnd_STK_GET_PARAMETER, <<32>>),
      Frame(Cmnd_STK_SET_PARAMETER, <<128, 32>>),
      Frame(Cmnd_STK_SET_DEVICE, Pattern(32, 1, 20)),
      Frame(Cmnd_STK_SET_DEVICE_EXT, Pattern(32, 0, 5)),
      LoadAddress(16), LoadAddress(8224), LoadAddress(65520),
      Universal(<<80, 0, 0, 0>>), UniversalErase, Universal(<<76, 0, 0, 0>>),
      ProgPage(0, MemtypeF, << >>),
      ProgPage(4, MemtypeF, <<222, 173, 190, 239>>),
      ProgPage(3, Memtypef, <<1, 2, 3>>),
      ProgPage(4, 69, <<1, 2, 3, 4>>),
      ProgPage(64, MemtypeF, Pattern(32, 1, 64)),
      ProgPage(128, MemtypeF, Pattern(0, 3, 128)),
      ProgPage(256, MemtypeF, Pattern(7, 5, 256)),
      ProgPage(4, MemtypeF, <<82, 32, 81, 32>>),
      ProgPage(256, MemtypeF, [i \in 1..256 |-> IF i % 2 = 1 THEN 82 ELSE 32]),
      ReadPage(0, MemtypeF), ReadPage(4, MemtypeF), ReadPage(5, Memtypef),
      ReadPage(256, MemtypeF), ReadPage(257, MemtypeF), ReadPage(4, 69) }

AllFrames == SizedFrames \cup OversizeFrames

InitFrames ==
    /\ PowerOn
    /\ HostStart
    /\ variant = BuildPico
    /\ script = << >>
    /\ pc = "boot"
    /\ phase = "setup"
    /\ \E t \in Targets : sig = t.sig /\ tgt_wpp = t.wpp
    /\ tgt_desync \in {0, EnterAttempts}
    /\ flash \in { << >>, [a \in {16, 17} |-> 12345] }

SendSetup ==
    \E f \in SetupFrames \cup {WearOut} :
        /\ phase = "setup"
        /\ nfeeds < MaxSetup
        /\ Send(f)
        /\ nfeeds' = nfeeds + 1
        /\ UNCHANGED << script, replies, phase >>

SendProbe ==
    \E f \in AllFrames :
        /\ phase = "setup"
        /\ Send(f)
        /\ phase' = "probed"
        /\ UNCHANGED << script, replies, nfeeds >>

NextFrames == Boot \/ SendSetup \/ SendProbe

SpecFrames == InitFrames /\ [][NextFrames]_vars

\* The size field of a PROG_PAGE frame is at most 256 (other frames have none).
WellSized(f) ==
    f[1] = Cmnd_STK_PROG_PAGE => f[2] * 256 + f[3] <= MaxPageOp

\* The bytes written form one response, flushed once at its end: 14 .. 10, or
\* 14 11, or 15 alone.
IsEnvelope(b) ==
    \/ Len(b) >= 2 /\ b[1] = Resp_STK_INSYNC /\ b[Len(b)] = Resp_STK_OK
    \/ b = <<Resp_STK_INSYNC, Resp_STK_FAILED>>
    \/ b = <<Resp_STK_NOSYNC>>

OneResponse(tr) ==
    LET io == SelectSeq(tr, LAMBDA e : e.ev \in {"put", "flush"})
    IN  /\ Count(tr, "flush") = 1
        /\ Last(io).ev = "flush"
        /\ IsEnvelope(TxBytes(tr))

\* C1 (as claimed): every complete frame of a tabulated command, fed while the
\* accumulator is empty, yields exactly one response: 14 .. 10, 14 11 or 15.
C1_EveryFrameOneResponse ==
    sent \in AllFrames => OneResponse(trace)

\* C1 (amended): a complete frame, with a PROG_PAGE size field of at most 256,
\* fed while the accumulator is empty, yields exactly one response, 14 .. 10 or
\* 14 11 or 15, and is consumed whole; except the CHIP_ERASE frame that meets
\* the erase ceiling: the programmer halts in it and writes nothing.
C1_SizedFrameOneResponse ==
    (sent \in AllFrames /\ WellSized(sent)) =>
        IF halted
        THEN sent = ChipEraseFrame /\ TxBytes(trace) = << >>
        ELSE OneResponse(trace) /\ Count(trace, "dispatch") = 1 /\ rx_buf = << >>

\* C1 witness: a 256-byte READ_PAGE in a session has been answered.
C1_Witness ==
    /\ sent = ReadPage(256, MemtypeF)
    /\ programming
    /\ Len(TxBytes(trace)) = 258
    /\ OneResponse(trace)

\* C2 (as claimed): the ISP driver issues no page-buffer load, write-page or
\* chip-erase transaction while in_programming_mode is false.
C2_NoWriteOutsideProgMode ==
    \A i \in 1..Len(trace) :
        (/\ trace[i].ev = "spi"
         /\ \/ IsLoadLow(trace[i].dat) \/ IsLoadHigh(trace[i].dat)
            \/ IsWritePage(trace[i].dat) \/ IsChipErase(trace[i].dat))
        => trace[i].prog

(***************************************************************************)
(* SpecSession: from power-on the host plays one scripted session, frame   *)
(* by frame, and keeps the reply to each frame.  phase names the session:  *)
(* a page round trip, the scenarios S3 and S4, or two PROG_PAGE frames     *)
(* after a LOAD_ADDRESS.                                                   *)
(***************************************************************************)
MaxPageNo == 1

\* The page size the device table gives for signature s (128 when absent,
\* the dispatcher's default).
PageBytesOf(s) ==
    IF avr_lookup_device_by_signature(s) = NoDevice
    THEN DefaultPageSize
    ELSE avr_lookup_device_by_signature(s).page_size_bytes

PageData(n) ==
    { Pattern(0, 1, n), Pattern(255, 0, n), Pattern(32, 0, n), Pattern(222, 7, n) }

RoundTrips(t) ==
    { [ phase |-> [kind |-> "roundtrip", pre |-> 0, A |-> a, data |-> d],
        script |-> << EnterFrame, ChipEraseFrame, LoadAddress(a),
                      ProgPage(Len(d), MemtypeF, d), LoadAddress(a),
                      ReadPage(Len(d), MemtypeF) >> ] :
        a \in {k * (PageBytesOf(t.sig) \div 2) : k \in 0..MaxPageNo}
                \cup {65536 - (PageBytesOf(t.sig) \div 2)},
        d \in PageData(PageBytesOf(t.sig)) }

S3Data == <<222, 173, 190, 239>>

\* S3 then S4, alone or after S2.
Scenarios34 ==
    { [ phase |-> [kind |-> "s3s4", pre |-> Len(pre), A |-> 16, data |-> S3Data],
        script |-> pre \o << LoadAddress(16), ProgPage(4, MemtypeF, S3Data),
                             LoadAddress(16), ReadPage(4, MemtypeF) >> ] :
        pre \in { << >>, << EnterFrame, ReadSignFrame >> } }

AutoIncrements(t) ==
    { [ phase |-> [kind |-> "autoinc", pre |-> Len(pre), A |-> a,
                   data |-> Pattern(1, 1, 2 * w)],
        script |-> pre \o << LoadAddress(a),
                             ProgPage(2 * w, MemtypeF, Pattern(1, 1, 2 * w)),
                             ProgPage(2 * w, MemtypeF, Pattern(1, 1, 2 * w)) >> ] :
        pre \in { << >>, << EnterFrame >> },
        a \in {0, 16, 32767, 65504, 65535},
        w \in {0, 1, 2, PageBytesOf(t.sig) \div 2} }

\* Reads and a commit that start at the last word address the host can load.
TopOfRange ==
    { [ phase |-> [kind |-> "top", pre |-> 0, A |-> 65535, data |-> d],
        script |-> << LoadAddress(65535), ReadPage(4, MemtypeF),
                      ReadPage(256, MemtypeF), ProgPage(Len(d), MemtypeF, d) >> ] :
        d \in { <<1, 2>>, << >> } }

Sessions(t) == RoundTrips(t) \cup Scenarios34 \cup AutoIncrements(t) \cup TopOfRange

InitSession ==
    /\ PowerOn
    /\ HostStart
    /\ variant = BuildPico
    /\ pc = "boot"
    /\ \E t \in Targets :
          /\ sig = t.sig /\ tgt_wpp = t.wpp
          /\ \E s \in Sessions(t) : phase = s.phase /\ script = s.script
          /\ \/ flash = << >> /\ tgt_desync \in {0, 3}
             \/ /\ phase.kind # "s3s4"
                /\ flash = [a \in {0, 16} |-> 4660]
                /\ tgt_desync = 0

Step ==
    /\ nfeeds < Len(script)
    /\ Send(script[nfeeds + 1])
    /\ nfeeds' = nfeeds + 1
    /\ replies' = Append(replies, TxBytes(trace'))
    /\ UNCHANGED << script, phase >>

NextSession == Boot \/ Step

SpecSession == InitSession /\ [][NextSession]_vars

InsyncOk == << Resp_STK_INSYNC, Resp_STK_OK >>

\* The word addresses of the write-page transactions of the driver, in order.
WritePageAddrs(tr) ==
    LET wp == SelectSeq(tr, LAMBDA e : e.ev = "spi" /\ IsWritePage(e.dat))
    IN  [i \in 1..Len(wp) |-> TxAddr(wp[i].dat)]

\* C3: ENTER_PROGMODE; CHIP_ERASE; LOAD_ADDRESS(A); PROG_PAGE('F', bytes);
\* LOAD_ADDRESS(A); READ_PAGE('F', len(bytes)), with A page-aligned and bytes one
\* page long, ends with the reply 14, bytes, 10.
C3_RoundTrip ==
    (phase.kind = "roundtrip" /\ nfeeds = Len(script)) =>
        replies[nfeeds] = <<Resp_STK_INSYNC>> \o phase.data \o <<Resp_STK_OK>>

\* C3 witness: a round trip of a 128-byte page at the last page of a 64K-word
\* address space has been played to its end and returned the bytes written.
C3_Witness ==
    /\ phase.kind = "roundtrip"
    /\ nfeeds = Len(script)
    /\ phase.A = 65536 - 64
    /\ phase.data = Pattern(222, 7, 128)
    /\ replies[nfeeds] = <<Resp_STK_INSYNC>> \o phase.data \o <<Resp_STK_OK>>
    /\ FlashWord(flash, 65535) = PageWord(phase.data, 63)

\* C4 (as claimed): with page_bytes = 128, after LOAD_ADDRESS(0x0010) and
\* PROG_PAGE(size 4, 'F', DE AD BE EF) both replies are 14 10 and the flash
\* words 0x0010 and 0x0011 hold 0xADDE and 0xEFBE.
C4_S3Effect ==
    (phase.kind = "s3s4" /\ nfeeds >= phase.pre + 2 /\ page_size_bytes = 128) =>
        /\ replies[phase.pre + 1] = InsyncOk
        /\ replies[phase.pre + 2] = InsyncOk
        /\ FlashWord(flash, 16) = 44510
        /\ FlashWord(flash, 17) = 61374

\* C5 (as claimed): after S3 on an erased target, LOAD_ADDRESS(0x0010) and
\* READ_PAGE(size 4, 'F') are answered 14 10 and 14 DE AD BE EF 10.
C5_S4ReadBack ==
    (phase.kind = "s3s4" /\ nfeeds = phase.pre + 4) =>
        /\ replies[phase.pre + 3] = InsyncOk
        /\ replies[phase.pre + 4] = <<Resp_STK_INSYNC>> \o S3Data \o <<Resp_STK_OK>>

\* C6 (as claimed): in LOAD_ADDRESS(A); PROG_PAGE(size 2W); PROG_PAGE(size 2W)
\* the write-page transaction of the second PROG_PAGE carries A + W.
C6_SecondCommitAtAPlusW ==
    (phase.kind = "autoinc" /\ nfeeds = Len(script)) =>
        WritePageAddrs(trace) = << phase.A + (Len(phase.data) \div 2) >>

\* C6 (amended): in LOAD_ADDRESS(A); PROG_PAGE(size 2W); PROG_PAGE(size 2W),
\* with A in 0..0xFFFF and 2W <= page_bytes, the second PROG_PAGE issues
\* exactly one write-page transaction and it carries (A + W) mod 2^16.
C6_SecondCommitWraps ==
    (phase.kind = "autoinc" /\ nfeeds = Len(script)) =>
        WritePageAddrs(trace) = << (phase.A + (Len(phase.data) \div 2)) % 65536 >>

\* C6 witness: the second PROG_PAGE after LOAD_ADDRESS(0x7FFF), W = 2, has
\* committed at 0x8001.
C6_Witness ==
    /\ phase.kind = "autoinc"
    /\ nfeeds = Len(script)
    /\ phase.A = 32767
    /\ Len(phase.data) = 4
    /\ WritePageAddrs(trace) = << 32769 >>
    /\ replies[nfeeds] = InsyncOk

(***************************************************************************)
(* SpecResync: from power-on, after at most one frame that changes the     *)
(* programmer's state, the host sends a garbage sequence and then one      *)
(* valid frame.  script keeps the garbage, replies the programmer's state  *)
(* before it.                                                              *)
(***************************************************************************)
MaxGarbage == 2

GarbageBytes == { 0, 255, Sync_CRC_EOP, Cmnd_STK_GET_SYNC, Cmnd_STK_LOAD_ADDRESS,
                  Cmnd_STK_PROG_PAGE }

Garbage == UNION { [1..n -> GarbageBytes] : n \in 1..MaxGarbage }

ResyncFrames ==
    { GetSyncFrame, EnterFrame, LoadAddress(8224), ReadPage(4, MemtypeF),
      ProgPage(4, MemtypeF, S3Data) }

Snapshot ==
    [ current_address |-> current_address, programming |-> programming,
      page_size_bytes |-> page_size_bytes, words_per_page |-> words_per_page,
      bb_erase_count |-> bb_erase_count, reset_pin |-> reset_pin,
      flash |-> flash, pagebuf |-> pagebuf ]

InitResync ==
    /\ PowerOn
    /\ HostStart
    /\ variant = BuildPico
    /\ script = << >>
    /\ pc = "boot"
    /\ phase = "idle"
    /\ \E t \in Targets : sig = t.sig /\ tgt_wpp = t.wpp
    /\ tgt_desync = 0
    /\ flash = [a \in {0, 1} |-> 4660]

Prepare ==
    \E f \in { EnterFrame, LoadAddress(16) } :
        /\ phase = "idle"
        /\ Send(f)
        /\ phase' = "ready"
        /\ UNCHANGED << script, replies, nfeeds >>

SendGarbage ==
    \E g \in Garbage :
        /\ phase \in {"idle", "ready"}
        /\ Send(g)
        /\ script' = g
        /\ replies' = Snapshot
        /\ phase' = "garbage"
        /\ UNCHANGED nfeeds

SendFrame ==
    \E f \in ResyncFrames :
        /\ phase = "garbage"
        /\ Send(f)
        /\ phase' = "framed"
        /\ UNCHANGED << script, replies, nfeeds >>

NextResync == Boot \/ Prepare \/ SendGarbage \/ SendFrame

SpecResync == InitResync /\ [][NextResync]_vars

\* The frame just sent was dispatched, as itself, and answered once.
FrameAnswered ==
    /\ Count(trace, "dispatch") = 1
    /\ \E i \in 1..Len(trace) : trace[i].ev = "dispatch" /\ trace[i].dat = sent
    /\ OneResponse(trace)

\* C7 (as claimed): after any garbage sequence, one valid frame is dispatched
\* as itself and gets exactly one response, and the garbage has left the
\* programmer's state as it was.
C7_AnyGarbageThenFrame ==
    /\ phase = "framed" => FrameAnswered
    /\ phase = "garbage" => Snapshot = replies

\* C7 (amended): after a garbage sequence none of whose bytes is one of the
\* fifteen command bytes, the accumulator is empty, nothing was written to the
\* host or the target and the programmer's state is as it was; one valid frame
\* that follows is dispatched as itself and gets exactly one response.
C7_SilentGarbageThenFrame ==
    (\A i \in 1..Len(script) : script[i] \notin KnownCmds) =>
        /\ phase = "garbage" =>
              /\ rx_buf = << >>
              /\ Snapshot = replies
              /\ \A i \in 1..Len(trace) : trace[i].ev = "drop"
        /\ phase = "framed" => FrameAnswered /\ rx_buf = << >>

\* C7 witness: READ_PAGE after the garbage 00 20 has been answered with four
\* bytes.
C7_Witness ==
    /\ phase = "framed"
    /\ script = <<0, Sync_CRC_EOP>>
    /\ sent = ReadPage(4, MemtypeF)
    /\ FrameAnswered
    /\ Len(TxBytes(trace)) = 6

(***************************************************************************)
(* SpecStream: from power-on the host's byte stream arrives in chunks of   *)
(* one or two bytes, MaxStream bytes in all (nfeeds counts them).          *)
(***************************************************************************)
MaxStream == 5

StreamBytes == { 0, Sync_CRC_EOP, Cmnd_STK_GET_SYNC, Cmnd_STK_LOAD_ADDRESS,
                 Cmnd_STK_PROG_PAGE }

Chunks == { <<a>> : a \in StreamBytes } \cup
          { <<a, b>> : a \in StreamBytes, b \in StreamBytes }

InitStream ==
    /\ PowerOn
    /\ HostStart
    /\ variant = BuildPico
    /\ script = << >>
    /\ pc = "boot"
    /\ phase = "stream"
    /\ sig = devices[1].signature /\ tgt_wpp = devices[1].page_size_bytes \div 2
    /\ tgt_desync = 0
    /\ flash = << >>

Feed ==
    \E c \in Chunks :
        /\ nfeeds + Len(c) <= MaxStream
        /\ Send(c)
        /\ nfeeds' = nfeeds + Len(c)
        /\ UNCHANGED << script, replies, phase >>

NextStream == Boot \/ Feed

SpecStream == InitStream /\ [][NextStream]_vars

\* C8: every frame handed to handle_frame has the length expected for its
\* head command byte and ends with 0x20.
C8_FrameEndsWithEop ==
    \A i \in 1..Len(trace) :
        trace[i].ev = "dispatch" =>
            /\ Len(trace[i].dat) = Needed(trace[i].dat)
            /\ Last(trace[i].dat) = Sync_CRC_EOP

\* C8 witness: LOAD_ADDRESS 00 30 was dispatched when its last byte arrived
\* alone.
C8_Witness ==
    /\ sent = <<Sync_CRC_EOP>>
    /\ Count(trace, "dispatch") = 1
    /\ trace[1].ev = "dispatch"
    /\ trace[1].dat = <<Cmnd_STK_LOAD_ADDRESS, 0, Cmnd_STK_GET_SYNC, Sync_CRC_EOP>>
    /\ current_address = 12288

(***************************************************************************)
(* SpecMode: from power-on, with either dispatcher source built in, the    *)
(* host enters and leaves programming mode; between two sessions the       *)
(* target chip in the socket may be replaced.  replies keeps the           *)
(* programmer's state before the last frame.                               *)
(***************************************************************************)
MaxModeSends == 3

ModeFrames == { EnterFrame, LeaveFrame, LoadAddress(16), ReadSignFrame }

InitMode ==
    /\ PowerOn
    /\ HostStart
    /\ variant \in { BuildPico, BuildPart000 }
    /\ script = << >>
    /\ pc = "boot"
    /\ phase = "first"
    /\ \E t \in Targets : sig = t.sig /\ tgt_wpp = t.wpp
    /\ tgt_desync \in {0, 3, EnterAttempts}
    /\ flash = << >>

SendMode ==
    \E f \in ModeFrames :
        /\ nfeeds < MaxModeSends
        /\ Send(f)
        /\ nfeeds' = nfeeds + 1
        /\ replies' = Snapshot
        /\ UNCHANGED << script, phase >>

\* Between two sessions another chip is put into the socket.
SwapTarget ==
    \E t \in Targets, d \in {0, EnterAttempts} :
        /\ pc = "loop"
        /\ phase = "first"
        /\ ~programming
        /\ sig' = t.sig /\ tgt_wpp' = t.wpp
        /\ tgt_desync' = d
        /\ flash' = << >> /\ pagebuf' = << >>
        /\ phase' = "second"
        /\ sent' = << >> /\ trace' = << >>
        /\ UNCHANGED << rx_buf, current_address, programming, page_size_bytes,
                        words_per_page, bb_erase_count, reset_pin, halted, pc,
                        script, replies, nfeeds, variant >>
        /\ FlasherIdle

NextMode == Boot \/ SendMode \/ SwapTarget

SpecMode == InitMode /\ [][NextMode]_vars

\* The programming-enable transactions of the last action.
ProgEnables(tr) == SelectSeq(tr, LAMBDA e : e.ev = "spi" /\ IsProgEnable(e.dat))

\* avr_enter_programming_mode returned true (some attempt was echoed), false.
EnterSucceeded ==
    /\ sent = EnterFrame
    /\ \E i \in 1..Len(ProgEnables(trace)) : ProgEnables(trace)[i].rsp[3] = 83

EnterFailed ==
    /\ sent = EnterFrame
    /\ \A i \in 1..Len(ProgEnables(trace)) : ProgEnables(trace)[i].rsp[3] # 83

\* The levels written to the RESET pin in the last action, in order.
ResetLevels(tr) ==
    LET rs == SelectSeq(tr, LAMBDA e : e.ev = "reset")
    IN  [i \in 1..Len(rs) |-> rs[i].dat[1]]

\* C11: right after the start-up the RESET line has been driven high; right
\* after an ENTER_PROGMODE answered 14 10 it is low.
C11_ResetLine ==
    /\ (pc = "loop" /\ nfeeds = 0 /\ phase = "first") =>
          reset_pin = 1 /\ ResetLevels(trace) = <<1>>
    /\ (sent = EnterFrame /\ TxBytes(trace) = InsyncOk) => reset_pin = 0

\* C11 witness: ENTER_PROGMODE succeeded at the fourth attempt and RESET is low.
C11_Witness ==
    /\ sent = EnterFrame
    /\ TxBytes(trace) = InsyncOk
    /\ Len(ProgEnables(trace)) = 4
    /\ ResetLevels(trace) = <<1, 0>>
    /\ reset_pin = 0

\* C12 (as claimed): after a LEAVE_PROGMODE frame, in either dispatcher source,
\* programming is false, RESET is high and the reply is 14 10.
C12_LeaveReleasesReset ==
    sent = LeaveFrame =>
        /\ ~programming
        /\ reset_pin = 1
        /\ TxBytes(trace) = InsyncOk

\* C13 (as claimed): after an ENTER_PROGMODE that succeeds, page_size_bytes is
\* the page size of the profile of the target's signature, or 128 when there
\* is none; programming is true and the reply is 14 10.
C13_EnterCachesPageSize ==
    EnterSucceeded =>
        /\ page_size_bytes = PageBytesOf(sig)
        /\ programming
        /\ TxBytes(trace) = InsyncOk

\* C14: when avr_enter_programming_mode fails, the reply is 14 11, no signature
\* is read, and current_address, programming and page_size_bytes are as before.
C14_EnterFailureKeepsState ==
    EnterFailed =>
        /\ TxBytes(trace) = <<Resp_STK_INSYNC, Resp_STK_FAILED>>
        /\ \A i \in 1..Len(trace) :
              trace[i].ev \in {"spi", "spi0"} => ~IsReadSig(trace[i].dat)
        /\ current_address = replies.current_address
        /\ programming = replies.programming
        /\ page_size_bytes = replies.page_size_bytes

\* C14 witness: ENTER_PROGMODE failed after eight attempts with the cursor at
\* 0x0010.
C14_Witness ==
    /\ EnterFailed
    /\ Len(ProgEnables(trace)) = EnterAttempts
    /\ TxBytes(trace) = <<Resp_STK_INSYNC, Resp_STK_FAILED>>
    /\ replies.current_address = 16
    /\ current_address = 16

(***************************************************************************)
(* SpecPipeline: from power-on the host writes up to MaxBatch frames back  *)
(* to back without waiting for the replies; script holds the frames.       *)
(***************************************************************************)
MaxBatch == 3

PipeFrames ==
    { GetSyncFrame, EnterFrame, ReadSignFrame, LoadAddress(16),
      ProgPage(2, MemtypeF, <<222, 173>>), ProgPage(2, 69, <<222, 173>>),
      ReadPage(2, MemtypeF) }

Batches == UNION { [1..n -> PipeFrames] : n \in 1..MaxBatch }

RECURSIVE Concat(_)
Concat(fs) == IF fs = << >> THEN << >> ELSE Head(fs) \o Concat(Tail(fs))

InitPipeline ==
    /\ PowerOn
    /\ HostStart
    /\ variant = BuildPico
    /\ script = << >>
    /\ pc = "boot"
    /\ phase = "pipeline"
    /\ \E t \in Targets : sig = t.sig /\ tgt_wpp = t.wpp
    /\ tgt_desync = 0
    /\ flash = << >>

SendBatch ==
    \E fs \in Batches :
        /\ nfeeds = 0
        /\ Send(Concat(fs))
        /\ script' = fs
        /\ nfeeds' = 1
        /\ UNCHANGED << replies, phase >>

NextPipeline == Boot \/ SendBatch

SpecPipeline == InitPipeline /\ [][NextPipeline]_vars

\* The frames handed to handle_frame in the last action, in order.
Dispatched(tr) ==
    LET ds == SelectSeq(tr, LAMBDA e : e.ev = "dispatch")
    IN  [i \in 1..Len(ds) |-> ds[i].dat]

\* What was written towards the host before event j of tr.
IoBefore(tr, j) ==
    SelectSeq(SubSeq(tr, 1, j - 1), LAMBDA e : e.ev \in {"put", "flush"})

\* C15: the frames are dispatched in the order they arrived, and when a frame
\* is dispatched every earlier frame has its reply written and flushed: as
\* many flushes as earlier frames, and no byte written after the last flush.
C15_InOrderAndFlushed ==
    nfeeds = 1 =>
        /\ Dispatched(trace) = script
        /\ \A j \in 1..Len(trace) :
              trace[j].ev = "dispatch" =>
                  /\ Count(IoBefore(trace, j), "flush")
                        = Count(SubSeq(trace, 1, j - 1), "dispatch")
                  /\ IoBefore(trace, j) # << >> =>
                        Last(IoBefore(trace, j)).ev = "flush"
        /\ Count(trace, "flush") = Len(script)
        /\ Last(trace).ev = "drop"

\* C15 witness: three frames written at once, answered OK, FAILED and with the
\* two bytes read, in that order.
C15_Witness ==
    /\ script = << LoadAddress(16), ProgPage(2, 69, <<222, 173>>),
                   ReadPage(2, MemtypeF) >>
    /\ Dispatched(trace) = script
    /\ TxBytes(trace) = << Resp_STK_INSYNC, Resp_STK_OK,
                           Resp_STK_INSYNC, Resp_STK_FAILED,
                           Resp_STK_INSYNC, 255, 255, Resp_STK_OK >>

(***************************************************************************)
(* The cursor current_address, followed through the events of one action:  *)
(* every event carries the value the cursor had when it was logged.        *)
(***************************************************************************)
\* The frames whose handler assigns current_address.
CursorFrame(f) ==
    f[1] \in {Cmnd_STK_LOAD_ADDRESS, Cmnd_STK_PROG_PAGE, Cmnd_STK_READ_PAGE}

\* The event that ends the handling of the frame dispatched at event j: the
\* drop_rx(needed) after handle_frame, or the halt inside it.
FrameEnd(tr, j) ==
    CHOOSE k \in (j + 1)..Len(tr) :
        /\ tr[k].ev \in {"drop", "halt"}
        /\ \A i \in (j + 1)..(k - 1) : tr[i].ev \notin {"drop", "halt"}

\* The reply to the frame dispatched at event j is 14 ... 10.
RepliedOk(tr, j) ==
    LET r == TxBytes(SubSeq(tr, j, FrameEnd(tr, j)))
    IN  Len(r) >= 2 /\ r[1] = Resp_STK_INSYNC /\ Last(r) = Resp_STK_OK

\* The four permitted changes of the cursor by a dispatched frame f.
CursorEffect(f, a, ok) ==
    CASE f[1] = Cmnd_STK_LOAD_ADDRESS -> f[3] * 256 + f[2]
      [] f[1] = Cmnd_STK_PROG_PAGE /\ ok -> a + ((f[2] * 256 + f[3]) \div 2)
      [] f[1] = Cmnd_STK_READ_PAGE /\ ok -> a + ((f[2] * 256 + f[3] + 1) \div 2)
      [] OTHER -> a

\* Event i lies in the handling of a LOAD_ADDRESS, PROG_PAGE or READ_PAGE frame.
InCursorFrame(tr, i) ==
    \E j \in 1..(i - 1) :
        /\ tr[j].ev = "dispatch"
        /\ CursorFrame(tr[j].dat)
        /\ \A k \in (j + 1)..(i - 1) : tr[k].ev # "drop"

CursorLaw(a0, tr, a1) ==
    /\ \A j \in 1..Len(tr) :
          (tr[j].ev = "dispatch" /\ CursorFrame(tr[j].dat)) =>
              tr[FrameEnd(tr, j)].addr
                  = CursorEffect(tr[j].dat, tr[j].addr, RepliedOk(tr, j))
    /\ \A i \in 1..Len(tr) :
          tr[i].addr # (IF i = 1 THEN a0 ELSE tr[i - 1].addr) =>
              InCursorFrame(tr, i)
    /\ a1 = IF tr = << >> THEN a0 ELSE Last(tr).addr

\* C16: current_address becomes 0 in the start-up; a dispatched LOAD_ADDRESS
\* sets it to (hi << 8) | lo, a PROG_PAGE answered OK adds size / 2, a
\* READ_PAGE answered OK adds (size + 1) / 2, and nothing else changes it.
C16_CursorChanges ==
    [][ IF pc = "boot"
        THEN current_address' = 0
        ELSE CursorLaw(current_address, trace', current_address') ]_vars

\* C16 witness: READ_PAGE of 5 bytes at 0xFFF0 has moved the cursor by 3.
C16_Witness ==
    /\ sent = ReadPage(5, Memtypef)
    /\ Len(TxBytes(trace)) = 7
    /\ trace[1].addr = 65520
    /\ current_address = 65523

(***************************************************************************)
(* SpecFeed: from power-on, stk500v1_feed is called directly with buffers  *)
(* of any length, longer than the free space of rx_buf among them;         *)
(* replies keeps rx_buf as it was before the call.                         *)
(***************************************************************************)
MaxFeedCalls == 3

\* 400 LOAD_ADDRESS frames back to back (1600 bytes).
ManyLoads == [i \in 1..1600 |-> LoadAddress(16)[((i - 1) % 4) + 1]]

FeedData ==
    { GetSyncFrame,
      SubSeq(ProgPage(256, MemtypeF, Pattern(1, 0, 256)), 1, 104),
      ProgPage(256, MemtypeF, Pattern(1, 0, 256)),
      Pattern(0, 0, 1100),
      Pattern(48, 0, 1024),
      ManyLoads }

InitFeed ==
    /\ PowerOn
    /\ HostStart
    /\ variant = BuildPico
    /\ script = << >>
    /\ pc = "boot"
    /\ phase = "feed"
    /\ \E t \in Targets : sig = t.sig /\ tgt_wpp = t.wpp
    /\ tgt_desync = 0
    /\ flash = << >>

FeedCall ==
    \E d \in FeedData :
        /\ pc = "loop"
        /\ ~halted
        /\ nfeeds < MaxFeedCalls
        /\ Commit(stk500v1_feed(Machine, d))
        /\ sent' = d
        /\ replies' = rx_buf
        /\ nfeeds' = nfeeds + 1
        /\ UNCHANGED << pc, script, phase >>
        /\ TargetSame /\ FlasherIdle

NextFeed == Boot \/ FeedCall

SpecFeed == InitFeed /\ [][NextFeed]_vars

\* The bytes removed by the drop_rx calls lo..hi of ds, in order.
RECURSIVE DropRange(_, _, _)
DropRange(ds, lo, hi) ==
    IF lo > hi THEN << >>
    ELSE IF lo = hi THEN ds[lo].dat
    ELSE DropRange(ds, lo, (lo + hi) \div 2) \o DropRange(ds, ((lo + hi) \div 2) + 1, hi)

\* Every byte that was in rx_buf during the last call: the ones removed by
\* drop_rx, then the ones still buffered.
Buffered ==
    LET ds == SelectSeq(trace, LAMBDA e : e.ev = "drop")
    IN  DropRange(ds, 1, Len(ds)) \o rx_buf

\* C17: rx_buf never holds more than 1024 bytes; a call that brings more bytes
\* than the free space appends the first (1024 - rx_len) of them to the bytes
\* buffered before, which stay as they were, and discards the rest.
C17_AppendTruncates ==
    /\ Len(rx_buf) <= STK_RX_BUF_SIZE
    /\ nfeeds > 0 =>
          /\ Len(Buffered) <= STK_RX_BUF_SIZE
          /\ Buffered = replies \o
                 SubSeq(sent, 1, Min(Len(sent), STK_RX_BUF_SIZE - Len(replies)))

\* C17 witness: 104 bytes of a PROG_PAGE frame were buffered and a call brought
\* 1100 bytes; 920 of them went into the buffer.
C17_Witness ==
    /\ Len(replies) = 104
    /\ Len(sent) = 1100
    /\ Len(Buffered) = STK_RX_BUF_SIZE
    /\ SubSeq(Buffered, 1, 104) = replies

\* C18: in every reachable state page_size_bytes is even and at least 2, and
\* words_per_page is its half, whatever signature the target answers with.
C18_PageBytesEven ==
    /\ page_size_bytes % 2 = 0
    /\ page_size_bytes >= 2
    /\ words_per_page = page_size_bytes \div 2

\* C18 witness: in a second session, an ENTER_PROGMODE on an ATtiny85 has
\* replaced the cached 128 by 64.
C18_Witness ==
    /\ EnterSucceeded
    /\ phase = "second"
    /\ sig = devices[2].signature
    /\ replies.page_size_bytes = 128
    /\ page_size_bytes = 64
    /\ words_per_page = 32

\* A PROG_PAGE or READ_PAGE frame that the handlers refuse for its memtype or
\* its size, with the page size pb in force.
Refused(f, pb) ==
    LET size == f[2] * 256 + f[3]
        memtype == f[4]
    IN  \/ /\ f[1] = Cmnd_STK_PROG_PAGE
           /\ \/ memtype \notin {MemtypeF, Memtypef}
              \/ size > Min(pb, MaxPageOp)
        \/ /\ f[1] = Cmnd_STK_READ_PAGE
           /\ \/ memtype \notin {MemtypeF, Memtypef}
              \/ size = 0
              \/ size > MaxPageOp

\* C19: a dispatched PROG_PAGE whose memtype is not 'F'/'f' or whose size
\* exceeds min(page_size_bytes, 256), and a dispatched READ_PAGE whose memtype
\* is not 'F'/'f' or whose size is 0 or above 256, is answered 14 11 with no
\* SPI transaction and with current_address as it was.
C19_RefusedPageOps ==
    \A j \in 1..Len(trace) :
        (trace[j].ev = "dispatch" /\ Refused(trace[j].dat, page_size_bytes)) =>
            LET seg == SubSeq(trace, j, FrameEnd(trace, j))
            IN  /\ TxBytes(seg) = <<Resp_STK_INSYNC, Resp_STK_FAILED>>
                /\ \A i \in 1..Len(seg) : seg[i].ev \notin {"spi", "spi0"}
                /\ Last(seg).addr = trace[j].addr
                /\ current_address = trace[j].addr

\* C19 witness: with the 64-byte page of an ATtiny85 cached and the cursor at
\* 0xFFF0, a PROG_PAGE of 128 bytes was refused.
C19_Witness ==
    /\ sent = ProgPage(128, MemtypeF, Pattern(0, 3, 128))
    /\ page_size_bytes = 64
    /\ Count(trace, "dispatch") = 1
    /\ TxBytes(trace) = <<Resp_STK_INSYNC, Resp_STK_FAILED>>
    /\ current_address = 65520

(***************************************************************************)
(* The SPI traffic of an accepted PROG_PAGE.                               *)
(***************************************************************************)
\* The SPI transactions of the last action, in order.
SpiTx(tr) ==
    LET sp == SelectSeq(tr, LAMBDA e : e.ev \in {"spi", "spi0"})
    IN  [i \in 1..Len(sp) |-> sp[i].dat]

\* For j = 0 .. words - 1: load low byte data[2j], then high byte data[2j+1],
\* at page-buffer index j.
ExpectedLoads(data, words) ==
    [k \in 1..(2 * words) |->
        LET j == (k - 1) \div 2
        IN  IF k % 2 = 1
            THEN <<64, j \div 256, j % 256, data[2 * j + 1]>>
            ELSE <<72, j \div 256, j % 256, data[2 * j + 2]>>]

\* The last action handled one PROG_PAGE frame that passes the validation.
AcceptedProgPage ==
    /\ sent # << >>
    /\ sent[1] = Cmnd_STK_PROG_PAGE
    /\ Count(trace, "dispatch") = 1
    /\ trace[1].ev = "dispatch" /\ trace[1].dat = sent
    /\ ~Refused(sent, page_size_bytes)

\* The loads and their order, the single write-page, and the advance and the
\* reply after it.
ProgPageOrder ==
    LET size == sent[2] * 256 + sent[3]
        data == SubSeq(sent, 5, Len(sent) - 1)
        pre == trace[1].addr
        tx == SpiTx(trace)
    IN  /\ Len(tx) = 2 * (size \div 2) + 1
        /\ SubSeq(tx, 1, 2 * (size \div 2)) = ExpectedLoads(data, size \div 2)
        /\ IsWritePage(Last(tx))
        /\ \A i \in 1..Len(trace) :
              /\ trace[i].ev = "spi" => trace[i].addr = pre
              /\ trace[i].ev = "put" =>
                    /\ trace[i].addr = pre + (size \div 2)
                    /\ \A k \in 1..Len(trace) : trace[k].ev = "spi" => k < i
        /\ current_address = pre + (size \div 2)
        /\ TxBytes(trace) = InsyncOk

\* C20 (as claimed): an accepted PROG_PAGE loads the words 0 .. s/2 - 1 in
\* ascending order, low byte then high byte, then issues one write-page that
\* carries the cursor value from before the increment, and only then advances
\* the cursor by s/2 and replies 14 10.
C20_CommitCarriesCursor ==
    AcceptedProgPage =>
        /\ ProgPageOrder
        /\ WritePageAddrs(trace) = << trace[1].addr >>

\* C20 (amended): the same, with the write-page carrying the low 16 bits of
\* the cursor value from before the increment.
C20_CommitCarriesCursorLow16 ==
    AcceptedProgPage =>
        /\ ProgPageOrder
        /\ WritePageAddrs(trace) = << trace[1].addr % 65536 >>

\* C20 witness: a PROG_PAGE of a whole 128-byte page at cursor 0x0040: 128
\* loads, one write-page at 0x0040, cursor at 0x0080.
C20_Witness ==
    /\ AcceptedProgPage
    /\ sent[2] * 256 + sent[3] = 128
    /\ Len(SpiTx(trace)) = 129
    /\ trace[1].addr = 64
    /\ WritePageAddrs(trace) = << 64 >>
    /\ current_address = 128
    /\ TxBytes(trace) = InsyncOk

(***************************************************************************)
(* The reply of an accepted READ_PAGE.                                     *)
(***************************************************************************)
\* The last action handled one READ_PAGE frame that passes the validation.
AcceptedReadPage ==
    /\ sent # << >>
    /\ sent[1] = Cmnd_STK_READ_PAGE
    /\ Count(trace, "dispatch") = 1
    /\ trace[1].ev = "dispatch" /\ trace[1].dat = sent
    /\ ~Refused(sent, page_size_bytes)

\* Byte off of the reply when the word for it is the flash word at address a.
ReadPageByte(a, off) ==
    IF off % 2 = 0 THEN FlashWord(flash, a) % 256 ELSE FlashWord(flash, a) \div 256

\* C21 (as claimed): an accepted READ_PAGE of size s replies 14, then s bytes,
\* byte off being the low (off even) or high (off odd) byte of the flash word
\* at current_address + off / 2, then 10; the cursor grows by (s + 1) / 2.
C21_ReadPageReply ==
    AcceptedReadPage =>
        LET s == sent[2] * 256 + sent[3]
            pre == trace[1].addr
        IN  /\ TxBytes(trace) =
                  <<Resp_STK_INSYNC>>
                  \o [i \in 1..s |-> ReadPageByte(pre + ((i - 1) \div 2), i - 1)]
                  \o <<Resp_STK_OK>>
            /\ current_address = pre + ((s + 1) \div 2)

\* C21 (amended): the same, with the word read at the low 16 bits of
\* current_address + off / 2.
C21_ReadPageReplyLow16 ==
    AcceptedReadPage =>
        LET s == sent[2] * 256 + sent[3]
            pre == trace[1].addr
        IN  /\ TxBytes(trace) =
                  <<Resp_STK_INSYNC>>
                  \o [i \in 1..s |->
                        ReadPageByte((pre + ((i - 1) \div 2)) % 65536, i - 1)]
                  \o <<Resp_STK_OK>>
            /\ current_address = pre + ((s + 1) \div 2)

\* C21 witness: READ_PAGE of 256 bytes at cursor 0 has returned the bytes 39 30
\* of the programmed word at address 16 as bytes 32 and 33 of the data.
C21_Witness ==
    /\ AcceptedReadPage
    /\ sent = ReadPage(256, MemtypeF)
    /\ trace[1].addr = 0
    /\ FlashWord(flash, 16) = 12345
    /\ Len(TxBytes(trace)) = 258
    /\ TxBytes(trace)[34] = 57 /\ TxBytes(trace)[35] = 48
    /\ current_address = 128

\* C22 (as claimed): a dispatched UNIVERSAL frame makes exactly one 4-byte
\* transfer of its payload through avr_bitbang_transfer, the link every other
\* ISP operation of the build uses, and replies 14, the fourth received byte,
\* 10.
C22_UniversalUsesIspLink ==
    (/\ sent # << >>
     /\ sent[1] = Cmnd_STK_UNIVERSAL
     /\ Count(trace, "dispatch") = 1
     /\ trace[1].ev = "dispatch" /\ trace[1].dat = sent) =>
        /\ Count(trace, "spi0") = 0
        /\ Count(trace, "spi") = 1
        /\ \A i \in 1..Len(trace) :
              trace[i].ev = "spi" =>
                  /\ trace[i].dat = SubSeq(sent, 2, 5)
                  /\ TxBytes(trace) = <<Resp_STK_INSYNC, trace[i].rsp[4], Resp_STK_OK>>

\* The responses of the SPI transactions of the last action, in order.
SpiRx(tr) ==
    LET sp == SelectSeq(tr, LAMBDA e : e.ev \in {"spi", "spi0"})
    IN  [i \in 1..Len(sp) |-> sp[i].rsp]

\* C23: READ_SIGN makes the three read-signature transactions 30 00 00 00,
\* 30 00 01 00, 30 00 02 00 in that order and replies 14, the fourth response
\* byte of each, 10; with an ATmega328P (1E 95 0F) that answers, ENTER_PROGMODE
\* then READ_SIGN gives 14 10 and 14 1E 95 0F 10.
C23_ReadSign ==
    /\ sent = ReadSignFrame =>
          /\ SpiTx(trace) = << <<48, 0, 0, 0>>, <<48, 0, 1, 0>>, <<48, 0, 2, 0>> >>
          /\ TxBytes(trace) = << Resp_STK_INSYNC, SpiRx(trace)[1][4],
                                 SpiRx(trace)[2][4], SpiRx(trace)[3][4], Resp_STK_OK >>
    /\ (sig = <<30, 149, 15>> /\ phase = "first") =>
          /\ (nfeeds = 1 /\ EnterSucceeded) => TxBytes(trace) = InsyncOk
          /\ (nfeeds = 2 /\ sent = ReadSignFrame /\ replies.programming) =>
                TxBytes(trace) = <<Resp_STK_INSYNC, 30, 149, 15, Resp_STK_OK>>

\* C23 witness: scenario S2 has run on an ATmega328P.
C23_Witness ==
    /\ sig = <<30, 149, 15>>
    /\ phase = "first"
    /\ nfeeds = 2
    /\ sent = ReadSignFrame
    /\ replies.programming /\ replies.reset_pin = 0
    /\ Len(SpiTx(trace)) = 3
    /\ TxBytes(trace) = <<Resp_STK_INSYNC, 30, 149, 15, Resp_STK_OK>>

(***************************************************************************)
(* SpecQuery: from power-on, after up to MaxQuerySetup frames that change  *)
(* the programmer's state or ask for sync, the host sends one frame of the *)
(* commands that only ask or tell: GET_SYNC, GET_SIGN_ON, GET_PARAMETER    *)
(* with every parameter byte, SET_PARAMETER, SET_DEVICE, SET_DEVICE_EXT.   *)
(* replies keeps the state before the last frame, the frame before it and  *)
(* its reply.                                                              *)
(***************************************************************************)
MaxQuerySetup == 2

QuerySetupFrames ==
    { EnterFrame, LeaveFrame, ChipEraseFrame, LoadAddress(16), GetSyncFrame }

PayloadBytes == {0, Sync_CRC_EOP, 128, 255}

QueryFrames ==
    { GetSyncFrame, GetSignOnFrame }
    \cup { Frame(Cmnd_STK_GET_PARAMETER, <<p>>) : p \in 0..255 }
    \cup { Frame(Cmnd_STK_SET_PARAMETER, <<a, b>>) : a \in PayloadBytes, b \in PayloadBytes }
    \cup { Frame(Cmnd_STK_SET_DEVICE, Pattern(c, k, 20)) : c \in PayloadBytes, k \in {0, 1} }
    \cup { Frame(Cmnd_STK_SET_DEVICE_EXT, Pattern(c, k, 5)) : c \in PayloadBytes, k \in {0, 1} }

Before == [state |-> Snapshot, sent |-> sent, tx |-> TxBytes(trace)]

InitQuery ==
    /\ PowerOn
    /\ HostStart
    /\ variant = BuildPico
    /\ script = << >>
    /\ pc = "boot"
    /\ phase = "setup"
    /\ sig \in { devices[1].signature, devices[2].signature }
    /\ tgt_wpp = PageBytesOf(sig) \div 2
    /\ tgt_desync = 0
    /\ flash = << >>

SendQuerySetup ==
    \E f \in QuerySetupFrames :
        /\ phase = "setup"
        /\ nfeeds < MaxQuerySetup
        /\ Send(f)
        /\ nfeeds' = nfeeds + 1
        /\ replies' = Before
        /\ UNCHANGED << script, phase >>

SendQuery ==
    \E f \in QueryFrames :
        /\ phase = "setup"
        /\ Send(f)
        /\ phase' = "queried"
        /\ replies' = Before
        /\ UNCHANGED << script, nfeeds >>

NextQuery == Boot \/ SendQuerySetup \/ SendQuery

SpecQuery == InitQuery /\ [][NextQuery]_vars

\* The last action was the query, and the parser handed it whole to
\* handle_frame.
Queried(cmd) ==
    /\ phase = "queried"
    /\ sent[1] = cmd
    /\ Count(trace, "dispatch") = 1
    /\ trace[1].ev = "dispatch" /\ trace[1].dat = sent

\* C24: GET_PARAMETER with parameter byte p replies 14, v, 10 where v is 02 for
\* p = 80, 01 for p = 81, 12 for p = 82 and 00 for every other p, in every
\* programmer state.
C24_GetParameter ==
    Queried(Cmnd_STK_GET_PARAMETER) =>
        TxBytes(trace) =
            << Resp_STK_INSYNC,
               IF sent[2] = 128 THEN 2
               ELSE IF sent[2] = 129 THEN 1
               ELSE IF sent[2] = 130 THEN 18
               ELSE 0,
               Resp_STK_OK >>

\* C24 witness: in programming mode with the cursor at 0x0010, parameter 82 was
\* answered with 12.
C24_Witness ==
    /\ Queried(Cmnd_STK_GET_PARAMETER)
    /\ sent[2] = 130
    /\ programming /\ current_address = 16
    /\ TxBytes(trace) = <<Resp_STK_INSYNC, 18, Resp_STK_OK>>

\* C25: GET_SYNC followed by GET_SIGN_ON is answered 14 10 and then
\* 14 41 56 52 20 49 53 50 10, and no reply of any frame ends with the
\* end-of-packet byte 20.
C25_SignOnScenario ==
    /\ (Queried(Cmnd_STK_GET_SIGN_ON) /\ replies.sent = GetSyncFrame) =>
          /\ replies.tx = InsyncOk
          /\ TxBytes(trace) =
                 <<Resp_STK_INSYNC, 65, 86, 82, 32, 73, 83, 80, Resp_STK_OK>>
    /\ TxBytes(trace) # << >> => Last(TxBytes(trace)) # Sync_CRC_EOP

\* C25 witness: right after power-on GET_SYNC and then GET_SIGN_ON were sent.
C25_Witness ==
    /\ Queried(Cmnd_STK_GET_SIGN_ON)
    /\ nfeeds = 1
    /\ replies.sent = GetSyncFrame
    /\ replies.tx = InsyncOk
    /\ Len(TxBytes(trace)) = 9

\* C30: GET_SYNC, SET_PARAMETER, SET_DEVICE and SET_DEVICE_EXT reply 14 10 for
\* every payload, make no SPI transaction and no change of RESET, and leave
\* current_address, programming, page_size_bytes and bb_erase_count as they
\* were.
C30_StatelessFrames ==
    (\/ Queried(Cmnd_STK_GET_SYNC)
     \/ Queried(Cmnd_STK_SET_PARAMETER)
     \/ Queried(Cmnd_STK_SET_DEVICE)
     \/ Queried(Cmnd_STK_SET_DEVICE_EXT)) =>
        /\ TxBytes(trace) = InsyncOk
        /\ \A i \in 1..Len(trace) : trace[i].ev \notin {"spi", "spi0", "reset"}
        /\ reset_pin = replies.state.reset_pin
        /\ current_address = replies.state.current_address
        /\ programming = replies.state.programming
        /\ page_size_bytes = replies.state.page_size_bytes
        /\ bb_erase_count = replies.state.bb_erase_count

\* C30 witness: in programming mode on an ATtiny85, after one chip erase,
\* SET_PARAMETER with the payload 80 20 was answered 14 10.
C30_Witness ==
    /\ Queried(Cmnd_STK_SET_PARAMETER)
    /\ sent = Frame(Cmnd_STK_SET_PARAMETER, <<128, Sync_CRC_EOP>>)
    /\ TxBytes(trace) = InsyncOk
    /\ programming /\ page_size_bytes = 64 /\ bb_erase_count = 1
    /\ reset_pin = 0

\* Event j of tr is a programming-enable transaction.
IsEnterAttempt(tr, j) == tr[j].ev = "spi" /\ IsProgEnable(tr[j].dat)

\* C26 (as claimed): avr_enter_programming_mode releases RESET, asserts it and
\* sends programming-enable; each retry after an echo other than 53 is preceded
\* by a new release and assertion of RESET; there are at most 8 retries; the
\* result is true, with RESET low, iff some attempt was echoed, and false
\* otherwise.
C26_EnterRetogglesReset ==
    sent = EnterFrame =>
        /\ \A j \in 1..Len(trace) :
              IsEnterAttempt(trace, j) =>
                  /\ j > 2
                  /\ trace[j - 2].ev = "reset" /\ trace[j - 2].dat = <<1>>
                  /\ trace[j - 1].ev = "reset" /\ trace[j - 1].dat = <<0>>
        /\ Len(ProgEnables(trace)) <= EnterAttempts + 1
        /\ EnterSucceeded <=> (programming /\ TxBytes(trace) = InsyncOk)
        /\ EnterSucceeded => reset_pin = 0

(***************************************************************************)
(* SpecParse: from power-on the host's bytes arrive in chunks of one or    *)
(* two bytes, or as the five bytes of noise and GET_SYNC, MaxParse bytes   *)
(* in all (nfeeds counts them).  replies keeps rx_buf and the programmer's *)
(* state as they were before the chunk.                                    *)
(***************************************************************************)
MaxParse == 6

ParseBytes == { 0, 1, Sync_CRC_EOP, Cmnd_STK_GET_SYNC, Cmnd_STK_LOAD_ADDRESS,
                Cmnd_STK_PROG_PAGE }

\* FF AA BB 30 20
NoiseThenSync == <<255, 170, 187>> \o GetSyncFrame

ParseChunks == { <<a>> : a \in ParseBytes } \cup
               { <<a, b>> : a \in ParseBytes, b \in ParseBytes } \cup
               { NoiseThenSync }

InitParse ==
    /\ PowerOn
    /\ HostStart
    /\ variant = BuildPico
    /\ script = << >>
    /\ pc = "boot"
    /\ phase = "parse"
    /\ sig = devices[1].signature /\ tgt_wpp = devices[1].page_size_bytes \div 2
    /\ tgt_desync = 0
    /\ flash = << >>

FeedChunk ==
    \E c \in ParseChunks :
        /\ nfeeds + Len(c) <= MaxParse
        /\ Send(c)
        /\ nfeeds' = nfeeds + Len(c)
        /\ replies' = [rx |-> rx_buf, state |-> Snapshot]
        /\ UNCHANGED << script, phase >>

NextParse == Boot \/ FeedChunk

SpecParse == InitParse /\ [][NextParse]_vars

(***************************************************************************)
(* The passes of the parser loop in the last action.  Every pass that does *)
(* not return calls drop_rx once, so the k-th drop event stands for the    *)
(* k-th pass, and the buffer that pass saw is what it and the later passes *)
(* removed, followed by what is left.                                      *)
(***************************************************************************)
PassDrops == SelectSeq(trace, LAMBDA e : e.ev = "drop")

\* The position in trace of the k-th drop event.
DropIdx ==
    SelectSeq([i \in 1..Len(trace) |-> i], LAMBDA i : trace[i].ev = "drop")

BufAt(k) == DropRange(PassDrops, k, Len(PassDrops)) \o rx_buf

\* Pass k is the one that dispatched a frame.
ClosesDispatch(k) ==
    \E i \in 1..(DropIdx[k] - 1) :
        trace[i].ev = "dispatch" /\ FrameEnd(trace, i) = DropIdx[k]

\* Pass k wrote 15 and flushed after its drop.
FollowedByNosync(k) ==
    /\ DropIdx[k] + 2 <= Len(trace)
    /\ trace[DropIdx[k] + 1].ev = "put"
    /\ trace[DropIdx[k] + 1].dat = <<Resp_STK_NOSYNC>>
    /\ trace[DropIdx[k] + 2].ev = "flush"

\* Pass k did nothing but its drop.
Silent(k) ==
    /\ ~ClosesDispatch(k)
    /\ DropIdx[k] < Len(trace) => trace[DropIdx[k] + 1].ev \in {"drop", "dispatch"}

\* The expected length of the frame at the head of buffer b: from the table
\* for the fixed commands, 5 + size for PROG_PAGE with its header buffered and
\* size at most 256; 0 where there is none.
HeadExpected(b) ==
    IF b[1] \in FixedCmds THEN FixedNeeded(b[1])
    ELSE IF b[1] = Cmnd_STK_PROG_PAGE /\ Len(b) >= 4 /\ b[2] * 256 + b[3] <= MaxPageOp
    THEN 5 + (b[2] * 256 + b[3])
    ELSE 0

\* The whole expected length is buffered and its last byte is not 20.
FramingError(b) ==
    /\ HeadExpected(b) > 0
    /\ Len(b) >= HeadExpected(b)
    /\ b[HeadExpected(b)] # Sync_CRC_EOP

\* b up to and including its first 20, or its first byte when it has none.
UpToFirstEop(b) ==
    IF \E i \in 1..Len(b) : b[i] = Sync_CRC_EOP
    THEN SubSeq(b, 1, CHOOSE i \in 1..Len(b) :
                          /\ b[i] = Sync_CRC_EOP
                          /\ \A n \in 1..(i - 1) : b[n] # Sync_CRC_EOP)
    ELSE <<b[1]>>

\* C27: a pass that finds the whole expected length buffered and a last byte
\* other than 20 writes one 15, dispatches nothing, and removes the bytes up to
\* and including the first 20 in the buffer, or one byte when there is none;
\* the other bytes stay in order; 15 is written by such passes only.
C27_FramingError ==
    nfeeds > 0 =>
        /\ Buffered = replies.rx \o sent
        /\ \A k \in 1..Len(PassDrops) :
              FramingError(BufAt(k)) =>
                  /\ ~ClosesDispatch(k)
                  /\ FollowedByNosync(k)
                  /\ PassDrops[k].dat = UpToFirstEop(BufAt(k))
        /\ Cardinality({ k \in 1..Len(PassDrops) : FramingError(BufAt(k)) })
              = Cardinality({ i \in 1..Len(trace) :
                                trace[i].ev = "put" /\ trace[i].dat = <<Resp_STK_NOSYNC>> })

\* C27 witness: 55 00 was buffered; 20 30 arrived; the parser removed 55 00 20,
\* wrote 15, dispatched nothing and kept 30.
C27_Witness ==
    /\ nfeeds > 0
    /\ replies.rx = <<Cmnd_STK_LOAD_ADDRESS, 0>>
    /\ sent = <<Sync_CRC_EOP, Cmnd_STK_GET_SYNC>>
    /\ Len(PassDrops) = 1
    /\ PassDrops[1].dat = <<Cmnd_STK_LOAD_ADDRESS, 0, Sync_CRC_EOP>>
    /\ TxBytes(trace) = <<Resp_STK_NOSYNC>>
    /\ Count(trace, "dispatch") = 0
    /\ rx_buf = <<Cmnd_STK_GET_SYNC>>

\* C28: a pass whose head byte is neither 20 nor a command byte removes that
\* byte alone, writes nothing, makes no SPI transaction and changes nothing of
\* the programmer's state; FF AA BB 30 20 arriving on an empty buffer is
\* answered 14 10 and nothing else.
C28_UnknownHeadDropped ==
    nfeeds > 0 =>
        /\ \A k \in 1..Len(PassDrops) :
              (BufAt(k)[1] # Sync_CRC_EOP /\ BufAt(k)[1] \notin KnownCmds) =>
                  /\ PassDrops[k].dat = <<BufAt(k)[1]>>
                  /\ Silent(k)
                  /\ PassDrops[k].addr =
                        (IF DropIdx[k] = 1 THEN replies.state.current_address
                         ELSE trace[DropIdx[k] - 1].addr)
                  /\ PassDrops[k].prog =
                        (IF DropIdx[k] = 1 THEN replies.state.programming
                         ELSE trace[DropIdx[k] - 1].prog)
                  /\ PassDrops[k].ec =
                        (IF DropIdx[k] = 1 THEN replies.state.bb_erase_count
                         ELSE trace[DropIdx[k] - 1].ec)
        /\ (sent = NoiseThenSync /\ replies.rx = << >>) =>
              /\ TxBytes(trace) = InsyncOk
              /\ Snapshot = replies.state
              /\ rx_buf = << >>

\* C28 witness: FF AA BB 30 20 arrived on an empty buffer: three bytes were
\* removed one by one, then GET_SYNC was dispatched.
C28_Witness ==
    /\ sent = NoiseThenSync
    /\ replies.rx = << >>
    /\ Len(PassDrops) = 4
    /\ PassDrops[1].dat = <<255>> /\ PassDrops[2].dat = <<170>> /\ PassDrops[3].dat = <<187>>
    /\ Dispatched(trace) = << GetSyncFrame >>
    /\ TxBytes(trace) = InsyncOk

\* C29: with PROG_PAGE at the head, the parser returns without removing or
\* writing anything while fewer than 4 bytes are buffered; with 4 or more and
\* a size field above 256 it removes the 64 alone, writes nothing and goes on;
\* otherwise the expected frame length is 5 + size: it returns while fewer
\* bytes are buffered, and else dispatches those bytes or resyncs.
C29_ProgPageHeader ==
    nfeeds > 0 =>
        /\ \A k \in 1..Len(PassDrops) :
              BufAt(k)[1] = Cmnd_STK_PROG_PAGE =>
                  LET b == BufAt(k)
                      size == b[2] * 256 + b[3]
                  IN  /\ Len(b) >= 4
                      /\ size > MaxPageOp =>
                            PassDrops[k].dat = <<Cmnd_STK_PROG_PAGE>> /\ Silent(k)
                      /\ size <= MaxPageOp =>
                            /\ Len(b) >= 5 + size
                            /\ b[5 + size] = Sync_CRC_EOP =>
                                  /\ ClosesDispatch(k)
                                  /\ PassDrops[k].dat = SubSeq(b, 1, 5 + size)
                            /\ b[5 + size] # Sync_CRC_EOP => FollowedByNosync(k)
        /\ (rx_buf # << >> /\ rx_buf[1] = Cmnd_STK_PROG_PAGE) =>
              \/ Len(rx_buf) < 4
              \/ /\ rx_buf[2] * 256 + rx_buf[3] <= MaxPageOp
                 /\ Len(rx_buf) < 5 + (rx_buf[2] * 256 + rx_buf[3])

\* C29 witness: 64 01 was buffered and 01 64 arrived: the size field is 257,
\* the first 64 was removed alone and the parser went on to 01, 01 and waits
\* at the second 64.
C29_Witness ==
    /\ nfeeds > 0
    /\ replies.rx = <<Cmnd_STK_PROG_PAGE, 1>>
    /\ sent = <<1, Cmnd_STK_PROG_PAGE>>
    /\ Len(PassDrops) = 3
    /\ PassDrops[1].dat = <<Cmnd_STK_PROG_PAGE>>
    /\ trace = PassDrops
    /\ rx_buf = <<Cmnd_STK_PROG_PAGE>>

(***************************************************************************)
(* SpecSurvive: from power-on the host sends up to MaxPieces pieces:       *)
(* whole frames, frames cut short, frames with a wrong last byte, bytes    *)
(* that are no command; once, it sends EraseLimit + 1 CHIP_ERASE frames.   *)
(* replies holds the accumulator as it was before the last send.           *)
(***************************************************************************)
MaxPieces == 2

Pieces ==
    { <<Cmnd_STK_LOAD_ADDRESS>>, <<Cmnd_STK_CHIP_ERASE>>, <<Sync_CRC_EOP>>,
      <<0, 255>>, <<Cmnd_STK_GET_SYNC, Cmnd_STK_GET_SYNC>>,
      <<Cmnd_STK_UNIVERSAL, 1, 2>>, ChipEraseFrame,
      <<Cmnd_STK_PROG_PAGE, 0, 100>>,
      <<Cmnd_STK_PROG_PAGE, 0, 8, MemtypeF, 1, 2>>,
      <<Cmnd_STK_PROG_PAGE, 1, 0, MemtypeF>> \o Pattern(82, 0, 100),
      <<Cmnd_STK_PROG_PAGE, 1, 0, MemtypeF>> \o Pattern(1, 1, 256),
      <<Cmnd_STK_PROG_PAGE, 2, 0, MemtypeF, Cmnd_STK_CHIP_ERASE, Sync_CRC_EOP>> }

InitSurvive ==
    /\ PowerOn
    /\ HostStart
    /\ variant = BuildPico
    /\ script = << >>
    /\ pc = "boot"
    /\ phase = "fresh"
    /\ sig = devices[1].signature /\ tgt_wpp = devices[1].page_size_bytes \div 2
    /\ tgt_desync = 0
    /\ flash = << >>

SendPiece ==
    \E p \in Pieces :
        /\ nfeeds < MaxPieces
        /\ Send(p)
        /\ replies' = rx_buf
        /\ nfeeds' = nfeeds + 1
        /\ UNCHANGED << script, phase >>

SendWear ==
    /\ phase = "fresh"
    /\ Send(WearOut)
    /\ replies' = rx_buf
    /\ phase' = "worn"
    /\ UNCHANGED << script, nfeeds >>

NextSurvive == Boot \/ SendPiece \/ SendWear

SpecSurvive == InitSurvive /\ [][NextSurvive]_vars

\* The trace ends in the endless loop of avr_erase_memory, entered from a
\* CHIP_ERASE frame with the erase count above the limit.
HaltedByErase(tr) ==
    /\ tr # << >>
    /\ tr[Len(tr)].ev = "halt"
    /\ tr[Len(tr)].ec > EraseLimit
    /\ Dispatched(tr)[Len(Dispatched(tr))] = ChipEraseFrame
    /\ Count(tr, "halt") = 1

\* 260 bytes 0x20, which complete whatever frame is cut short in the
\* accumulator, and then a GET_SYNC frame.
Recovery == Pattern(Sync_CRC_EOP, 0, 260) \o GetSyncFrame

\* The state after m has been fed bytes is halted in avr_erase_memory, or the
\* last frame dispatched is the GET_SYNC at the end of bytes, answered 14 10,
\* and the accumulator is empty.
Recovers(m, bytes) ==
    LET r == stk500v1_feed(m, bytes)
        tx == TxBytes(r.trace)
    IN  IF r.halted THEN HaltedByErase(r.trace)
        ELSE /\ r.rx_buf = << >>
             /\ Dispatched(r.trace) # << >>
             /\ Dispatched(r.trace)[Len(Dispatched(r.trace))] = GetSyncFrame
             /\ Len(tx) >= 2
             /\ SubSeq(tx, Len(tx) - 1, Len(tx)) = <<Resp_STK_INSYNC, Resp_STK_OK>>

\* C31: every call of stk500v1_feed terminates: each pass of its loop that
\* does not return removes at least one byte, so the passes are no more than
\* the bytes, and the call ends with the accumulator empty, with a frame cut
\* short at its head, or in the erase-ceiling halt.  That halt, entered from a
\* CHIP_ERASE frame with the erase count above the limit, is the only way the
\* programmer stops for good: in every other state, the bytes that follow are
\* still taken, and a GET_SYNC frame after them is answered 14 10.
C31_SessionSurvives ==
    (pc = "loop" /\ sent # << >>) =>
        /\ \A k \in 1..Len(PassDrops) : Len(PassDrops[k].dat) >= 1
        /\ Buffered = replies \o sent
        /\ Len(PassDrops) <= Len(replies) + Len(sent)
        /\ halted => HaltedByErase(trace)
        /\ ~halted =>
              /\ \/ rx_buf = << >>
                 \/ Needed(rx_buf) = Wait
                 \/ Len(rx_buf) < Needed(rx_buf)
              /\ Recovers(Machine, Recovery)

\* C31 witness: after the erase budget was used up, a PROG_PAGE header with a
\* size above 256 was dropped byte by byte and the CHIP_ERASE frame among its
\* data bytes halted the programmer.
C31_Witness ==
    /\ halted
    /\ Len(sent) = 6
    /\ sent[1] = Cmnd_STK_PROG_PAGE
    /\ HaltedByErase(trace)
    /\ Len(PassDrops) = 4

(***************************************************************************)
(* SpecSplit: from power-on the host sends a byte sequence that reaches    *)
(* stk500v1_feed cut in two at any place, or byte by byte.  The programmer *)
(* follows the calls as cut; replies holds what one call with the whole    *)
(* sequence would have written and left, from the same state and target;   *)
(* script holds the pieces, phase the accumulator before the first call.   *)
(***************************************************************************)
MaxSplitFeeds == 1

\* Successive calls stk500v1_feed(rx, n), one per piece, while the programmer
\* runs.
RECURSIVE FeedAll(_, _)
FeedAll(m, pieces) ==
    IF pieces = << >> \/ m.halted THEN m
    ELSE FeedAll(stk500v1_feed(m, Head(pieces)), Tail(pieces))

\* Whole frames with 0x20 among the payload bytes.
EopFrames ==
    { LoadAddress(32), LoadAddress(8224),
      Universal(<<32, 32, 32, 32>>), Universal(<<48, 0, 32, 0>>),
      Frame(Cmnd_STK_GET_PARAMETER, <<32>>),
      Frame(Cmnd_STK_SET_PARAMETER, <<32, 32>>),
      Frame(Cmnd_STK_SET_DEVICE_EXT, Pattern(32, 0, 5)),
      Frame(Cmnd_STK_SET_DEVICE, Pattern(13, 1, 20)),
      ReadPage(32, MemtypeF),
      ProgPage(4, MemtypeF, <<32, 32, 1, 32>>),
      ProgPage(32, Memtypef, Pattern(32, 0, 32)) }

SplitStreams ==
    { GetSyncFrame \o LoadAddress(8224) \o ProgPage(4, MemtypeF, <<32, 32, 1, 32>>)
        \o LoadAddress(8224) \o ReadPage(4, MemtypeF),
      EnterFrame \o Universal(<<32, 32, 32, 32>>) \o ReadSignFrame \o LeaveFrame,
      <<0, 255, Sync_CRC_EOP, 1>> \o GetSyncFrame \o <<Cmnd_STK_PROG_PAGE, 1, 1, 0>>
        \o ChipEraseFrame,
      ProgPage(16, MemtypeF, Pattern(32, 1, 16)) \o <<Cmnd_STK_LOAD_ADDRESS, 0>>,
      <<Cmnd_STK_LOAD_ADDRESS, 0, 0, 255>> \o GetSyncFrame,
      <<Cmnd_STK_GET_SYNC, Cmnd_STK_GET_SYNC, Sync_CRC_EOP>>,
      <<Cmnd_STK_LOAD_ADDRESS, Sync_CRC_EOP, 0, 0>> \o GetSyncFrame }
        \cup EopFrames

\* b cut in two after byte k, and b byte by byte.
Splits(b) ==
    { <<SubSeq(b, 1, k), SubSeq(b, k + 1, Len(b))>> : k \in 1..(Len(b) - 1) }
        \cup { [i \in 1..Len(b) |-> <<b[i]>>] }

\* The programmer's and the target's state in a machine record.
StateOf(m) ==
    [ rx_buf |-> m.rx_buf, current_address |-> m.current_address,
      programming |-> m.programming, page_size_bytes |-> m.page_size_bytes,
      words_per_page |-> m.words_per_page, bb_erase_count |-> m.bb_erase_count,
      reset_pin |-> m.reset_pin, halted |-> m.halted, flash |-> m.flash,
      pagebuf |-> m.pagebuf, tgt_desync |-> m.tgt_desync ]

\* The passes that found a wrong last byte: drop_rx followed by the 15.
Resyncs(tr) ==
    Cardinality({ i \in 1..(Len(tr) - 1) :
                    /\ tr[i].ev = "drop"
                    /\ tr[i + 1].ev = "put"
                    /\ tr[i + 1].dat = <<Resp_STK_NOSYNC>> })

\* What a run of calls wrote to the host and the target, and what it left.
Outcome(m) ==
    [ tx |-> TxBytes(m.trace), spi |-> SpiTx(m.trace), state |-> StateOf(m),
      resyncs |-> Resyncs(m.trace) ]

InitSplit ==
    /\ PowerOn
    /\ HostStart
    /\ variant = BuildPico
    /\ script = << >>
    /\ pc = "boot"
    /\ phase = [pre |-> << >>]
    /\ sig = devices[1].signature /\ tgt_wpp = devices[1].page_size_bytes \div 2
    /\ tgt_desync = 0
    /\ flash \in { << >>, [a \in {8224, 8225} |-> 12345] }

FeedSplit ==
    \E b \in SplitStreams :
        \E ps \in Splits(b) :
            /\ pc = "loop"
            /\ ~halted
            /\ nfeeds < MaxSplitFeeds
            /\ Commit(FeedAll(Machine, ps))
            /\ replies' = Outcome(FeedAll(Machine, <<b>>))
            /\ sent' = b
            /\ script' = ps
            /\ nfeeds' = nfeeds + 1
            /\ phase' = [pre |-> rx_buf]
            /\ UNCHANGED pc
            /\ TargetSame /\ FlasherIdle

NextSplit == Boot \/ FeedSplit

SpecSplit == InitSplit /\ [][NextSplit]_vars

\* What the calls as cut wrote and left.
SplitOutcome ==
    [ tx |-> TxBytes(trace), spi |-> SpiTx(trace), state |-> StateOf(Machine),
      resyncs |-> Resyncs(trace) ]

\* C32 (as claimed): however a byte sequence is cut into stk500v1_feed calls,
\* the bytes written to the host, the SPI transactions and the final state
\* are those of a single call with the whole sequence.
C32_SplitIndependent == nfeeds > 0 => SplitOutcome = replies

\* C32 (amended): the same holds for every byte sequence in which no frame
\* fails the test of its last byte, that is, when the single call writes no 15
\* for a resync; the pieces and the whole fit into the accumulator.
C32_SplitIndependentFramed ==
    (nfeeds > 0 /\ replies.resyncs = 0) => SplitOutcome = replies

\* C32 witness: a session of five frames with 0x20 among the payload bytes
\* arrived cut inside the PROG_PAGE data and was served as in one call.
C32_Witness ==
    /\ nfeeds > 0
    /\ Len(sent) = 24
    /\ Len(script) = 2
    /\ Len(script[1]) = 10
    /\ Len(replies.tx) = 14
    /\ replies.resyncs = 0
    /\ SplitOutcome = replies

(***************************************************************************)
(* PROG_PAGE frames and the commands among their data bytes (SpecFrames).  *)
(***************************************************************************)
\* The frame just sent is a PROG_PAGE frame: header, size data bytes, 0x20.
SentProgPage ==
    /\ phase = "probed"
    /\ Len(sent) >= 5
    /\ sent[1] = Cmnd_STK_PROG_PAGE
    /\ Len(sent) = 1 + 3 + (sent[2] * 256 + sent[3]) + 1

\* handle_frame was entered at most once, and only for PROG_PAGE.
OnlyProgPageDispatched ==
    /\ Len(Dispatched(trace)) <= 1
    /\ \A i \in 1..Len(Dispatched(trace)) :
          Dispatched(trace)[i][1] = Cmnd_STK_PROG_PAGE

\* C33 (as claimed): for a PROG_PAGE frame with any size field, handle_frame
\* is entered at most once and only with cmd = 0x64: no data byte is
\* dispatched as a command.
C33_DataNeverDispatched == SentProgPage => OnlyProgPageDispatched

\* C33 (amended): for a PROG_PAGE frame whose size field is at most 256,
\* handle_frame is entered exactly once, with the whole frame, and no SPI
\* command other than page-buffer loads and one write-page follows from its
\* data bytes.
C33_SizedDataNeverDispatched ==
    (SentProgPage /\ sent[2] * 256 + sent[3] <= MaxPageOp) =>
        /\ halted \/ Dispatched(trace) = <<sent>>
        /\ OnlyProgPageDispatched
        /\ DriverErases(trace) = 0

\* C33 witness: a PROG_PAGE of 256 bytes that repeat 52 20 (CHIP_ERASE) was
\* handed to handle_frame as one frame.
C33_Witness ==
    /\ SentProgPage
    /\ Len(sent) = 261
    /\ sent[5] = Cmnd_STK_CHIP_ERASE
    /\ sent[6] = Sync_CRC_EOP
    /\ Dispatched(trace) = <<sent>>
    /\ DriverErases(trace) = 0

(***************************************************************************)
(* SpecLink: from power-on the host sends up to MaxLinkSends frames that   *)
(* open, use and close a session; once, the target stops echoing the       *)
(* programming-enable instruction (a loose wire, a target that lost power  *)
(* or SPI synchronisation).                                                *)
(***************************************************************************)
MaxLinkSends == 3

LinkFrames == { EnterFrame, LeaveFrame, ReadSignFrame, LoadAddress(16) }

InitLink ==
    /\ PowerOn
    /\ HostStart
    /\ variant \in { BuildPico, BuildPart000 }
    /\ script = << >>
    /\ pc = "boot"
    /\ phase = "linked"
    /\ \E t \in Targets : sig = t.sig /\ tgt_wpp = t.wpp
    /\ tgt_desync = 0
    /\ flash = << >>

SendLink ==
    \E f \in LinkFrames :
        /\ nfeeds < MaxLinkSends
        /\ Send(f)
        /\ nfeeds' = nfeeds + 1
        /\ replies' = Snapshot
        /\ UNCHANGED << script, phase >>

\* The target stops answering: its next EnterAttempts programming-enable
\* transactions are not echoed.
LoseTarget ==
    /\ pc = "loop"
    /\ phase = "linked"
    /\ tgt_desync' = EnterAttempts
    /\ phase' = "lost"
    /\ sent' = << >> /\ trace' = << >>
    /\ UNCHANGED << rx_buf, current_address, programming, page_size_bytes,
                    words_per_page, bb_erase_count, reset_pin, halted, flash,
                    pagebuf, sig, tgt_wpp, pc, script, replies, nfeeds, variant >>
    /\ FlasherIdle

NextLink == Boot \/ SendLink \/ LoseTarget

SpecLink == InitLink /\ [][NextLink]_vars

\* C34: whenever the programming-mode flag is true, RESET is asserted (low).
C34_FlagImpliesReset == programming => reset_pin = 0

(***************************************************************************)
(* The accumulator between calls (SpecSurvive).                            *)
(***************************************************************************)
\* b starts with a command byte of the table and does not hold the whole
\* frame of that command.
HeadIncomplete(b) ==
    /\ b[1] \in KnownCmds
    /\ b[1] # Sync_CRC_EOP
    /\ IF b[1] = Cmnd_STK_PROG_PAGE
       THEN \/ Len(b) < 4
            \/ /\ b[2] * 256 + b[3] <= MaxPageOp
               /\ Len(b) < 1 + 3 + (b[2] * 256 + b[3]) + 1
       ELSE Len(b) < FixedNeeded(b[1])

\* C35: when stk500v1_feed has returned, the accumulator is empty or starts
\* with a command byte of the table (never 0x20) whose frame is not complete,
\* and holds at most 260 bytes; with calls of at most 128 bytes, as the main
\* loop makes them, every byte the host sent went through the accumulator:
\* the truncation discarded none.
C35_AccumulatorBetweenCalls ==
    (pc = "loop" /\ sent # << >> /\ ~halted) =>
        /\ rx_buf = << >> \/ HeadIncomplete(rx_buf)
        /\ Len(rx_buf) <= 1 + 3 + MaxPageOp
        /\ Buffered = replies \o sent

\* C35 witness: 260 bytes of a PROG_PAGE frame of 256 data bytes were waiting
\* and the next 104 bytes were appended to them in full; 364 bytes went
\* through the accumulator in that call.
C35_Witness ==
    /\ pc = "loop" /\ ~halted
    /\ Len(replies) = 1 + 3 + MaxPageOp
    /\ Len(sent) = 104
    /\ Len(Buffered) = 364
    /\ Buffered = replies \o sent

(***************************************************************************)
(* The data bytes a PROG_PAGE loads (SpecFrames).                          *)
(***************************************************************************)
\* The data bytes carried by the page-buffer load transactions that precede
\* the first write-page of tr, in order.
LoadedBytes(tr) ==
    LET sp == SelectSeq(tr, LAMBDA e : e.ev = "spi")
        wp == { i \in 1..Len(sp) : IsWritePage(sp[i].dat) }
        n == IF wp = {} THEN Len(sp)
             ELSE (CHOOSE i \in wp : \A k \in wp : i <= k) - 1
        ld == SelectSeq(SubSeq(sp, 1, n),
                        LAMBDA e : IsLoadLow(e.dat) \/ IsLoadHigh(e.dat))
    IN  [i \in 1..Len(ld) |-> ld[i].dat[4]]

\* The PROG_PAGE frame just sent was answered 14 10.
ProgPageOk ==
    /\ phase = "probed"
    /\ AcceptedProgPage
    /\ TxBytes(trace) = InsyncOk

\* C36 (as claimed): a PROG_PAGE answered 14 10 has loaded as many data bytes
\* into the page buffer before the write-page as its size says.
C36_AllBytesLoaded ==
    ProgPageOk => Len(LoadedBytes(trace)) = sent[2] * 256 + sent[3]

\* C36 (amended): a PROG_PAGE answered 14 10 has loaded, before its one
\* write-page, the first 2 * (size / 2) data bytes in order: all of them for
\* an even size, all but the last for an odd size.
C36_WholeWordsLoaded ==
    ProgPageOk =>
        LET size == sent[2] * 256 + sent[3]
        IN  /\ LoadedBytes(trace) = SubSeq(sent, 5, 4 + 2 * (size \div 2))
            /\ Len(WritePageAddrs(trace)) = 1

\* C36 witness: a PROG_PAGE of the three bytes 01 02 03 was answered 14 10
\* after 01 and 02 were loaded.
C36_Witness ==
    /\ ProgPageOk
    /\ sent[2] * 256 + sent[3] = 3
    /\ LoadedBytes(trace) = <<1, 2>>

(***************************************************************************)
(* The word addresses on the wire and the width of the cursor              *)
(* (SpecSession).                                                          *)
(***************************************************************************)
\* The read-program-memory transactions of tr, in order: two for each byte
\* offset of a READ_PAGE, the high byte and then the low byte of the word.
ReadEvents(tr) ==
    SelectSeq(tr, LAMBDA e : e.ev = "spi" /\ (IsReadLow(e.dat) \/ IsReadHigh(e.dat)))

WriteEvents(tr) == SelectSeq(tr, LAMBDA e : e.ev = "spi" /\ IsWritePage(e.dat))

\* C37 (as claimed): every write-page carries current_address and the reads
\* for byte offset off carry current_address + off / 2, and current_address
\* plus the largest read offset never exceeds 0xFFFF.
C37_NeverWraps ==
    /\ current_address + ((MaxPageOp - 1) \div 2) <= 65535
    /\ \A i \in 1..Len(WriteEvents(trace)) :
          TxAddr(WriteEvents(trace)[i].dat) = WriteEvents(trace)[i].addr
    /\ \A j \in 1..Len(ReadEvents(trace)) :
          TxAddr(ReadEvents(trace)[j].dat) =
              ReadEvents(trace)[j].addr + ((j - 1) \div 4)

\* C37 (amended): every write-page carries the low 16 bits of current_address
\* and the reads for byte offset off carry the low 16 bits of
\* current_address + off / 2; current_address is at most 0xFFFF right after a
\* LOAD_ADDRESS and is not reduced by the auto-increment that follows, so it
\* passes 0xFFFF and the commits and reads wrap to the low addresses.
C37_WrapsAt16Bits ==
    /\ \A i \in 1..Len(WriteEvents(trace)) :
          TxAddr(WriteEvents(trace)[i].dat) = WriteEvents(trace)[i].addr % 65536
    /\ \A j \in 1..Len(ReadEvents(trace)) :
          TxAddr(ReadEvents(trace)[j].dat) =
              (ReadEvents(trace)[j].addr + ((j - 1) \div 4)) % 65536
    /\ (sent # << >> /\ sent[1] = Cmnd_STK_LOAD_ADDRESS /\ TxBytes(trace) = InsyncOk)
          => current_address = sent[3] * 256 + sent[2]
    /\ \A i \in 1..Len(trace) :
          (trace[i].ev = "dispatch" /\ trace[i].dat[1] # Cmnd_STK_LOAD_ADDRESS)
              => current_address >= trace[i].addr

\* C37 witness: after LOAD_ADDRESS(0xFFFF) and a READ_PAGE of 4 bytes the
\* cursor is 0x10001, and a READ_PAGE of 256 bytes has read the words
\* 0x0001 .. 0x0080.
C37_Witness ==
    /\ phase.kind = "top"
    /\ nfeeds = 3
    /\ Len(ReadEvents(trace)) = 512
    /\ ReadEvents(trace)[1].addr = 65537
    /\ TxAddr(ReadEvents(trace)[1].dat) = 1
    /\ TxAddr(ReadEvents(trace)[512].dat) = 128
    /\ current_address = 65665

(***************************************************************************)
(* Frames with 0x20 among their payload bytes (SpecSplit).                 *)
(***************************************************************************)
\* One such frame has arrived, in pieces, at an empty accumulator.
EopFrameSent ==
    /\ nfeeds > 0
    /\ phase.pre = << >>
    /\ sent \in EopFrames

\* C38: a whole valid frame with 0x20 among its payload bytes, arriving at an
\* empty accumulator in any pieces, is handed to handle_frame exactly once,
\* as it was sent; no pass ends in a resync and no 15 is written; a
\* LOAD_ADDRESS with lo = 0x20 sets the cursor to (hi << 8) | 0x20.
C38_EopInPayloadIsData ==
    EopFrameSent =>
        /\ Dispatched(trace) = <<sent>>
        /\ Resyncs(trace) = 0
        /\ sent[1] # Cmnd_STK_READ_PAGE =>
              \A i \in 1..Len(TxBytes(trace)) : TxBytes(trace)[i] # Resp_STK_NOSYNC
        /\ TxBytes(trace)[1] = Resp_STK_INSYNC
        /\ rx_buf = << >>
        /\ sent[1] = Cmnd_STK_LOAD_ADDRESS =>
              current_address = sent[3] * 256 + sent[2]

\* C38 witness: LOAD_ADDRESS 55 20 20 20 arrived as 55 20 and 20 20 and set
\* the cursor to 0x2020.
C38_Witness ==
    /\ EopFrameSent
    /\ sent = LoadAddress(8224)
    /\ script = << <<Cmnd_STK_LOAD_ADDRESS, Sync_CRC_EOP>>,
                   <<Sync_CRC_EOP, Sync_CRC_EOP>> >>
    /\ Dispatched(trace) = <<sent>>
    /\ current_address = 8224
    /\ TxBytes(trace) = InsyncOk

(***************************************************************************)
(* The bytes one handle_frame call writes to the host (SpecFrames).        *)
(***************************************************************************)
\* The bytes written with tud_cdc_write_char from the dispatch at event j of
\* tr to the end of that handle_frame call; tud_task does not run in between.
WrittenInCall(tr, j) == Len(TxBytes(SubSeq(tr, j, FrameEnd(tr, j))))

\* C39: no handle_frame call writes more bytes to the host than the CDC
\* transmit buffer holds.
C39_ReplyFitsTxBuffer ==
    phase = "probed" =>
        \A j \in 1..Len(trace) :
            trace[j].ev = "dispatch" =>
                WrittenInCall(trace, j) <= CFG_TUD_CDC_TX_BUFSIZE

(***************************************************************************)
(* pico/main.c: the serial flasher.  main() reads a program from stdin as  *)
(* hexadecimal bytes separated by spaces and ended by a carriage return,   *)
(* reports its length, and flashes it.  An access outside an array is      *)
(* undefined behaviour: a write outside leaves the flasher in "undefined", *)
(* about which nothing more is said; the value of a read outside is not    *)
(* used by the model.                                                      *)
(***************************************************************************)
ProgramCodeSize == 2000     \* uint8_t program_code[2000]
InputSize == 10             \* char input[10]

Flasher ==
    [ program_code |-> program_code, input |-> input, code_c |-> code_c,
      input_c |-> input_c, fpc |-> fpc, access |-> << >> ]

CommitFlasher(l) ==
    /\ program_code' = l.program_code
    /\ input' = l.input
    /\ code_c' = l.code_c
    /\ input_c' = l.input_c
    /\ fpc' = l.fpc
    /\ access' = l.access

Access(l, a, i, o) ==
    [l EXCEPT !.access = Append(@, [arr |-> a, idx |-> i, op |-> o])]

\* input[input_c] = v
InputWrite(l, v) ==
    IF l.input_c \in 0..(InputSize - 1)
    THEN [Access(l, "input", l.input_c, "write")
            EXCEPT !.input = (l.input_c :> v) @@ @]
    ELSE [Access(l, "input", l.input_c, "write") EXCEPT !.fpc = "undefined"]

\* The characters of input up to the first NUL.
InputText(inp) ==
    LET n == IF \E i \in 0..(InputSize - 1) : inp[i] = 0
             THEN CHOOSE i \in 0..(InputSize - 1) :
                      inp[i] = 0 /\ \A k \in 0..(i - 1) : inp[k] # 0
             ELSE InputSize
    IN  [i \in 1..n |-> inp[i - 1]]

\* The value of a character as a hexadecimal digit, -1 if it is none.
HexDigit(ch) ==
    IF ch \in 48..57 THEN ch - 48
    ELSE IF ch \in 97..102 THEN ch - 87
    ELSE IF ch \in 65..70 THEN ch - 55
    ELSE -1

\* strtol's digit loop in base 16, saturating at LONG_MAX (32 bits).
RECURSIVE HexDigits(_, _, _)
HexDigits(s, i, v) ==
    IF i > Len(s) \/ HexDigit(s[i]) < 0 THEN v
    ELSE IF v > (2147483647 - HexDigit(s[i])) \div 16
    THEN HexDigits(s, i + 1, 2147483647)
    ELSE HexDigits(s, i + 1, v * 16 + HexDigit(s[i]))

\* strtol(input, NULL, 16): an optional 0x before the digits.
strtol16(s) ==
    IF Len(s) >= 3 /\ s[1] = 48 /\ s[2] \in {120, 88} /\ HexDigit(s[3]) >= 0
    THEN HexDigits(s, 3, 0)
    ELSE HexDigits(s, 1, 0)

\* program_code[code_c] = strtol(input, NULL, 16); input_c = 0; code_c++
StoreByte(l) ==
    IF l.fpc = "undefined" THEN l
    ELSE IF l.code_c \in 0..(ProgramCodeSize - 1)
    THEN [Access(l, "program_code", l.code_c, "write")
            EXCEPT !.program_code = (l.code_c :> U8(strtol16(InputText(l.input)))) @@ @,
                   !.input_c = 0,
                   !.code_c = @ + 1]
    ELSE [Access(l, "program_code", l.code_c, "write") EXCEPT !.fpc = "undefined"]

\* The printf after the reading loop: program_code[0], program_code[code_c - 1].
Report(l) ==
    IF l.fpc = "undefined" THEN l
    ELSE [Access(Access(l, "program_code", 0, "read"),
                 "program_code", l.code_c - 1, "read")
            EXCEPT !.fpc = "report"]

\* The test that lets a character through: CR, a digit, a small letter or a
\* space.
Accepted(c) == c = 13 \/ c \in 48..57 \/ c \in 97..122 \/ c = 32

\* One pass of the reading loop with the character c from getchar().
ReadChar(l, c) ==
    IF l.fpc # "read" \/ ~Accepted(c) THEN l
    ELSE IF c = 13 THEN Report(InputWrite(l, 0))
    ELSE IF c = 32 THEN StoreByte(InputWrite(InputWrite(l, c), 0))
    ELSE IF InputWrite(l, c).fpc = "undefined" THEN InputWrite(l, c)
    ELSE [InputWrite(l, c) EXCEPT !.input_c = @ + 1]

\* The passes for the characters lo..hi of s.
RECURSIVE ReadChars(_, _, _, _)
ReadChars(l, s, lo, hi) ==
    IF lo > hi \/ l.fpc # "read" THEN l
    ELSE IF lo = hi THEN ReadChar(l, s[lo])
    ELSE ReadChars(ReadChars(l, s, lo, (lo + hi) \div 2), s, ((lo + hi) \div 2) + 1, hi)

\* The rest of the outer loop: an odd length ends main(), and so does a
\* target that cannot be entered or fails the verification (ok is FALSE);
\* else the program is flashed from program_code[0 .. code_c - 1] and the
\* loop starts over.
FlashProgram(l, ok) ==
    IF l.code_c % 2 # 0 \/ ~ok THEN [l EXCEPT !.fpc = "exit"]
    ELSE IF l.code_c = 0 THEN [l EXCEPT !.fpc = "read", !.input_c = 0]
    ELSE [Access(Access(l, "program_code", 0, "read"),
                 "program_code", l.code_c - 1, "read")
            EXCEPT !.fpc = "read", !.code_c = 0, !.input_c = 0]

(***************************************************************************)
(* SpecFlasher: the serial flasher from its start; the host types up to    *)
(* MaxKeys single characters or runs of characters (nfeeds counts them);   *)
(* as the first thing it may send a whole program of 2000 bytes.           *)
(***************************************************************************)
MaxKeys == 3

\* ? CR space # 1 a x z
Keys == { 63, 13, 32, 35, 49, 97, 120, 122 }

\* 1234567890, and 0x1f followed by a space.
Runs == { <<49, 50, 51, 52, 53, 54, 55, 56, 57, 48>>, <<48, 120, 49, 102, 32>>,
          <<97, 97, 97, 97, 97, 97, 97, 97, 97, 32>> }

\* 2000 times "1a ".
FullProgram == [i \in 1..(3 * ProgramCodeSize) |-> <<49, 97, 32>>[((i - 1) % 3) + 1]]

StkIdle ==
    UNCHANGED << rx_buf, current_address, programming, page_size_bytes,
                 words_per_page, bb_erase_count, reset_pin, halted, flash,
                 pagebuf, sig, tgt_wpp, tgt_desync, trace, pc, script, replies,
                 phase, variant >>

InitFlasher ==
    /\ PowerOn
    /\ HostStart
    /\ variant = "pico/main.c"
    /\ script = << >>
    /\ pc = "boot"
    /\ phase = "flasher"
    /\ sig = devices[1].signature /\ tgt_wpp = devices[1].page_size_bytes \div 2
    /\ tgt_desync = 0
    /\ flash = << >>

\* stdio_init_all(); sleep_ms(1000); int code_c = 0; int input_c = 0;
Begin ==
    /\ fpc = "start"
    /\ CommitFlasher([Flasher EXCEPT !.fpc = "read", !.code_c = 0, !.input_c = 0])
    /\ UNCHANGED << sent, nfeeds >>
    /\ StkIdle

Type(s) ==
    /\ fpc = "read"
    /\ CommitFlasher(ReadChars(Flasher, s, 1, Len(s)))
    /\ sent' = s
    /\ nfeeds' = nfeeds + 1
    /\ StkIdle

TypeKey == \E c \in Keys : nfeeds < MaxKeys /\ Type(<<c>>)

TypeRun == \E s \in Runs : nfeeds < MaxKeys /\ Type(s)

TypeProgram == nfeeds = 0 /\ Type(FullProgram)

Flash ==
    /\ fpc = "report"
    /\ \E ok \in BOOLEAN : CommitFlasher(FlashProgram(Flasher, ok))
    /\ UNCHANGED << sent, nfeeds >>
    /\ StkIdle

NextFlasher == Begin \/ TypeKey \/ TypeRun \/ TypeProgram \/ Flash

SpecFlasher == InitFlasher /\ [][NextFlasher]_vars

\* C40: every write to input[] uses an index below 10 and every access to
\* program_code[] an index in 0..1999, whatever characters are received.
C40_IndicesInRange ==
    \A i \in 1..Len(access) :
        /\ access[i].arr = "input" => access[i].idx \in 0..(InputSize - 1)
        /\ access[i].arr = "program_code" =>
              access[i].idx \in 0..(ProgramCodeSize - 1)

====
